---- MODULE Spec2Model ----
(***************************************************************************)
(* Model of the catr transaction import (src/lib/utils/transactionApi.ts,  *)
(* second revision in src/unnamed/part_000, lines 369-992), its local      *)
(* store (src/lib/stores/storage.ts, src/unnamed/part_002) and the process *)
(* page that drives it (src/src/routes/process/+page.svelte).              *)
(*                                                                         *)
(* Units.  Delays are held in 1/10000 ms (Ms(100) is 100 ms), so that the  *)
(* repeated "* 0.9" of the rate limiter stays in the integers; what is     *)
(* left below 1/10000 ms is dropped.  Timestamps are minutes.              *)
(* Strings the code searches with includes() are sequences of words, and   *)
(* includes() is the search for a word.  Hexadecimal strings are sequences *)
(* of digits 0..15 (the "0x" prefix is left out).                          *)
(* Decimal strings (prices, costs) are their digits with the number of     *)
(* digits after the point.                                                 *)
(*                                                                         *)
(* Specifications.  Spec: the page, one import at a time.  SpecRemount: the *)
(* page left and reopened while an import runs.  SpecClient: the request   *)
(* client alone.  SpecStored: imports on a store filled by importDatabase. *)
(* SpecRules: imports with classification rules stored.  SpecCalls,        *)
(* SpecMerges and SpecBalances: functions of the API and the store called  *)
(* by themselves.  SpecBatch: the page with both its import buttons, the   *)
(* API key set or not.  SpecListener: the page left and, later, opened     *)
(* again, no listener being registered in between.  SpecShared: the        *)
(* imports of two wallets that share transactions, side by side.           *)
(* SpecClear: imports and clears on a store that holds balances and a rule.*)
(***************************************************************************)
EXTENDS Integers, Sequences, FiniteSets, TLC

\* The import calls that can be in flight at once (an import goes on when
\* the page that started it is left).
Procs == {1, 2}

VARIABLES
  \* TransactionAPI (the request client)
  rateLimitDelay,   \* private rateLimitDelay
  progressCallback, \* private progressCallback: the one listener, NONE when null
  cpc,              \* by call: where makeRequest stands: idle, attempt, returned
  req,              \* by call: the request
  retryCount,       \* by call: retryWithBackoff's retryCount
  reply,            \* by call: what makeRequest returned or threw
  \* what an observer of the client has seen
  slept,            \* by call: the sleep makeRequest began with
  waits,            \* by call: the waitTime slept before each retry
  answers,          \* by call: the network's answer to each attempt
  lastCall,         \* the call before the running one: its endpoint, whether it retried
  \* StorageService (localStorage)
  raw_transactions,
  gas_transactions,
  historical_prices,
  address_classifications,
  last_sync,        \* wallets[..].last_sync by wallet address, 0 when unset
  token_balances,
  \* the settings
  apiKey,           \* settings.apiKey, "" when not configured
  \* the process page
  loading,
  outcome,          \* the success or error the page shows
  attached,         \* by call: whether the page that started it is still mounted
  batch,            \* processAllWallets: where its loop stands
  \* importTransactionsForWallet and the stages it calls
  pc,               \* by call: the await the import stands at: idle,
                    \* asset_transfers, gas_fees, eth_price, pricing
  frame,            \* by call: the locals of the import
  \* the environment
  chainLen,         \* how many of AllTransfers are on chain
  now,              \* the clock
  called,           \* the last direct call of a function of the API or the store:
                    \* its name, its arguments and what it returned
  \* what an observer of the imports has seen
  progress,         \* by call: the events updateProgress was called with since the
                    \* import started
  handed,           \* by call: the listener the last of them was handed to (NONE: to none)
  atStart,          \* by call, when the import started: the highest block among the
                    \* wallet's stored transfers (0 when it had none), whether the
                    \* wallet was synced, and the length of the chain
  synced            \* the wallets imported in full, without a miss, nothing having been
                    \* mined since the import started nor cleared since it ended

clientVars == <<rateLimitDelay, cpc, req, retryCount, reply, slept, waits, answers>>

storeVars == <<raw_transactions, gas_transactions, historical_prices,
              address_classifications, last_sync, token_balances>>

pageVars == <<loading, outcome, attached, batch>>

importVars == <<pc, frame, atStart, synced, progress, handed>>

envVars == <<chainLen, now, lastCall, called, apiKey, progressCallback>>

vars == <<clientVars, storeVars, pageVars, importVars, envVars>>

\* undefined or null where the value is otherwise a string or a sequence, and
\* where it is otherwise a record.
NONE == "none"
null == [null |-> TRUE]

Ms(n) == n * 10000

Max(a, b) == IF a >= b THEN a ELSE b
Min(a, b) == IF a <= b THEN a ELSE b

-----------------------------------------------------------------------------
(* The request client.                                                     *)

maxRetries == 3

Endpoints == {"Asset transfers", "Transaction receipt", "Historical prices"}

\* What the network can answer to one fetch.
NetworkAnswers ==
  { [kind |-> "ok"],
    [kind |-> "http", status |-> "429", statusText |-> <<"Too", "Many", "Requests">>,
     body |-> <<>>],
    [kind |-> "http", status |-> "500", statusText |-> <<"Internal", "Server", "Error">>,
     body |-> <<>>],
    [kind |-> "http", status |-> "500", statusText |-> <<"Internal", "Server", "Error">>,
     body |-> <<"upstream", "timeout">>],
    [kind |-> "api", message |-> <<"execution", "reverted">>, code |-> "-32000"],
    [kind |-> "malformed"],
    [kind |-> "abort"],
    [kind |-> "network"] }

Includes(message, word) == \E i \in DOMAIN message : message[i] = word

\* The message of the error the operation of makeRequest throws on answer a.
OperationError(a, context) ==
  CASE a.kind = "http" ->
         <<context, "request", "failed:", a.status>> \o a.statusText \o <<"-">> \o a.body
    [] a.kind = "api" ->
         <<context, "API", "error:">> \o a.message \o <<"(Code:", a.code>>
    [] a.kind = "malformed" -> <<"Unexpected", "token", "in", "JSON">>
    [] a.kind = "abort" -> <<"Request", "timed", "out", "after", "30000ms">>
    [] a.kind = "network" -> <<"Failed", "to", "fetch">>

isRateLimit(message) == Includes(message, "429")

isTimeout(message) == Includes(message, "timeout") \/ Includes(message, "AbortError")

ShouldRetry(message, count) ==
  (isRateLimit(message) \/ isTimeout(message)) /\ count < maxRetries

DelayOnSuccess(d) == IF d > Ms(100) THEN Max(Ms(100), (d * 9) \div 10) ELSE d

DelayOnRetry_NoCap(d) == d * 2

DelayOnRetry(d) == Min(Ms(10000), d * 2)

WaitTime_Flat(d, count) == d

WaitTime(d, count) == d + count * Ms(2000)

SleepBeforeCall_Initial == Ms(100)

SleepBeforeCall == rateLimitDelay

-----------------------------------------------------------------------------
(* The chain data source and the price source, as the import sees them.    *)

Wallets == {"wA", "wB"}

\* The transfers the chain will ever hold, in block order, in the shape
\* alchemy_getAssetTransfers returns them.  Transfers 1 and 2 are two
\* transfers of one transaction, to two wallets; 3 and 4 share a block;
\* transfer 4 is of a token and names no contract.
AllTransfers ==
  << [blockNum |-> <<7>>, uniqueId |-> "u1", hash |-> "h1", from |-> "x1", to |-> "wA",
      asset |-> "ETH", rawContract |-> [address |-> NONE], blockTimestamp |-> 10],
     [blockNum |-> <<7>>, uniqueId |-> "u2", hash |-> "h1", from |-> "x1", to |-> "wB",
      asset |-> "ANT", rawContract |-> [address |-> "cANT"], blockTimestamp |-> 10],
     [blockNum |-> <<1, 0>>, uniqueId |-> "u3", hash |-> "h2", from |-> "x2", to |-> "wA",
      asset |-> "USDC", rawContract |-> [address |-> "cUSDC"], blockTimestamp |-> 17],
     [blockNum |-> <<1, 0>>, uniqueId |-> "u4", hash |-> "h3", from |-> "x1", to |-> "wA",
      asset |-> "ANT", rawContract |-> [address |-> NONE], blockTimestamp |-> 17],
     [blockNum |-> <<1, 9>>, uniqueId |-> "u5", hash |-> "h4", from |-> "x2", to |-> "wB",
      asset |-> "ETH", rawContract |-> [address |-> NONE], blockTimestamp |-> 40],
     [blockNum |-> <<1, 9>>, uniqueId |-> "u6", hash |-> "h4", from |-> "x2", to |-> "wA",
      asset |-> "USDC", rawContract |-> [address |-> "cUSDC"], blockTimestamp |-> 40] >>

\* How many of AllTransfers the chain comes to hold, and the size of a page
\* (maxCount, 0x64 in the code).
ChainSize == 4
PageSize == 2

RECURSIVE parseInt16(_)
parseInt16(digits) ==
  IF digits = <<>> THEN 0
  ELSE 16 * parseInt16(SubSeq(digits, 1, Len(digits) - 1)) + digits[Len(digits)]

RECURSIVE toString16(_)
toString16(n) ==
  IF n < 16 THEN <<n>> ELSE Append(toString16(n \div 16), n % 16)

\* alchemy_getAssetTransfers: the transfers to the address from fromBlock on,
\* a page at a time; the page key holds the number of transfers already served.
TransfersPage(n, address, from, key) ==
  LET all == SelectSeq(SubSeq(AllTransfers, 1, n),
                       LAMBDA t : /\ t.to = address
                                  /\ (from = NONE \/ parseInt16(t.blockNum) >= parseInt16(from)))
      off == IF key = NONE THEN 0 ELSE key[1]
      last == Min(off + PageSize, Len(all))
  IN  [transfers |-> SubSeq(all, off + 1, last),
       pageKey |-> IF last < Len(all) THEN <<last>> ELSE NONE]

\* eth_getTransactionReceipt.
Receipt(hash) ==
  [gasUsed |-> <<5, 2, 0, 8>>, effectiveGasPrice |-> <<3, 11, 9, 10, 12, 10, 0, 0>>,
   blockNumber |-> (CHOOSE t \in {AllTransfers[i] : i \in DOMAIN AllTransfers} :
                       t.hash = hash).blockNum]

\* A price as the price API writes it: a decimal string.
RECURSIVE DecimalDigits(_)
DecimalDigits(n) == IF n < 10 THEN <<n>> ELSE Append(DecimalDigits(n \div 10), n % 10)

DecimalString(n) == [digits |-> DecimalDigits(n), decimals |-> 0]

\* The price source has a point every 5 minutes for ETH and USDC and none for
\* any other token.
PriceValue(key, t) ==
  CASE key = "ETH" -> 2000 + t
    [] key = "cUSDC" -> 1
    [] OTHER -> 0

RECURSIVE PricePoints(_, _, _)
PricePoints(key, startTime, endTime) ==
  IF startTime > endTime \/ PriceValue(key, startTime) = 0 THEN <<>>
  ELSE IF startTime % 5 = 0
       THEN <<[value |-> DecimalString(PriceValue(key, startTime)),
               timestamp |-> startTime]>>
              \o PricePoints(key, startTime + 1, endTime)
       ELSE PricePoints(key, startTime + 1, endTime)

-----------------------------------------------------------------------------
(* bignumber.js, as calculateGasCost uses it.  A BigNumber that is a       *)
(* natural number is the sequence of its decimal digits, lowest first and  *)
(* without leading zeros (0 is the empty sequence).  A decimal string, as  *)
(* toFixed returns it and as a price comes, is its digits, highest first   *)
(* and without the point, with the number of digits after the point.       *)

Reverse(seq) == [k \in DOMAIN seq |-> seq[Len(seq) + 1 - k]]

RECURSIVE Normalized(_)
Normalized(a) ==
  IF a # <<>> /\ a[Len(a)] = 0 THEN Normalized(SubSeq(a, 1, Len(a) - 1)) ELSE a

\* a * m + c, for a small m and c.
RECURSIVE TimesSmall(_, _, _)
TimesSmall(a, m, c) ==
  IF a = <<>> THEN (IF c = 0 THEN <<>> ELSE <<c % 10>> \o TimesSmall(<<>>, m, c \div 10))
  ELSE LET v == a[1] * m + c
       IN  <<v % 10>> \o TimesSmall(Tail(a), m, v \div 10)

RECURSIVE Plus(_, _, _)
Plus(a, b, c) ==
  IF a = <<>> /\ b = <<>> THEN (IF c = 0 THEN <<>> ELSE <<c>>)
  ELSE LET x == IF a = <<>> THEN 0 ELSE a[1]
           y == IF b = <<>> THEN 0 ELSE b[1]
           v == x + y + c
       IN  <<v % 10>> \o Plus(IF a = <<>> THEN a ELSE Tail(a),
                              IF b = <<>> THEN b ELSE Tail(b), v \div 10)

\* BigNumber.multipliedBy: exact.
RECURSIVE multipliedBy(_, _)
multipliedBy(a, b) ==
  IF a = <<>> \/ b = <<>> THEN <<>>
  ELSE Normalized(Plus(TimesSmall(a, b[1], 0), <<0>> \o multipliedBy(a, Tail(b)), 0))

\* The digits read in base 10.
BigNumber16_Base10(digits) == Normalized(Reverse(digits))

\* new BigNumber(hex, 16).
RECURSIVE BigNumber16(_)
BigNumber16(digits) ==
  IF digits = <<>> THEN <<>>
  ELSE Normalized(TimesSmall(BigNumber16(SubSeq(digits, 1, Len(digits) - 1)), 16,
                             digits[Len(digits)]))

\* new BigNumber(decimal string): the number times 10^decimals.
BigNumber10(str) == Normalized(Reverse(str.digits))

Zeros(n) == [k \in 1..n |-> 0]

\* a / 10^shift written with dp decimals: BigNumber.toFixed(dp), and before
\* it dividedBy(10^shift), which is exact when shift <= DECIMAL_PLACES.
toFixed(a, shift, dp, ROUNDING_MODE) ==
  LET drop == shift - dp
      kept == IF drop <= 0 THEN Zeros(0 - drop) \o a
              ELSE IF drop >= Len(a) THEN <<>> ELSE SubSeq(a, drop + 1, Len(a))
      up == /\ ROUNDING_MODE = "ROUND_HALF_UP"
            /\ drop > 0 /\ drop <= Len(a) /\ a[drop] >= 5
      rounded == IF up THEN Plus(kept, <<1>>, 0) ELSE kept
      padded == IF Len(rounded) < dp + 1
                THEN rounded \o Zeros(dp + 1 - Len(rounded)) ELSE rounded
  IN  [digits |-> Reverse(padded), decimals |-> dp]

\* calculateGasCost; the rounding mode is what BigNumber.config has set
\* (ROUND_DOWN once crypto.ts is loaded, ROUND_HALF_UP before).
calculateGasCost(gasUsed, gasPrice, ethPrice, ROUNDING_MODE) ==
  LET gasUsedBN == BigNumber16(gasUsed)
      gasPriceBN == BigNumber16(gasPrice)
      ethPriceBN == BigNumber10(ethPrice)
      ethCost == multipliedBy(gasUsedBN, gasPriceBN)
      usdCost == multipliedBy(ethCost, ethPriceBN)
  IN  [ethCost |-> toFixed(ethCost, 18, 18, ROUNDING_MODE),
       usdCost |-> toFixed(usdCost, 18 + ethPrice.decimals, 2, ROUNDING_MODE)]

-----------------------------------------------------------------------------
(* StorageService.                                                         *)

getRawTransactionsByWallet(stored, walletAddress) ==
  SelectSeq(stored, LAMBDA t : t.wallet_address = walletAddress)

\* The merge keeps, of what is stored, only the transfers of the wallet whose
\* transfers come in.
addRawTransactions_OwnWallet(existing, transactions) ==
  IF transactions = <<>> THEN existing
  ELSE LET own == SelectSeq(existing,
                            LAMBDA t : t.wallet_address = transactions[1].wallet_address)
       IN  own \o SelectSeq(transactions,
                            LAMBDA tx : ~ \E k \in DOMAIN own : own[k].id = tx.id)

\* The new transfers are pushed last first.
addRawTransactions_LastFirst(existing, transactions) ==
  existing \o Reverse(SelectSeq(transactions,
                                LAMBDA tx : ~ \E k \in DOMAIN existing : existing[k].id = tx.id))

RECURSIVE addRawTransactions(_, _)
addRawTransactions(existing, transactions) ==
  IF transactions = <<>> THEN existing
  ELSE LET tx == Head(transactions)
           combined == IF \E k \in DOMAIN existing : existing[k].id = tx.id
                       THEN existing ELSE Append(existing, tx)
       IN  addRawTransactions(combined, Tail(transactions))

addGasTransactions_NoDedup(existing, gasTransactions) == existing \o gasTransactions

\* A record whose id is stored takes the place of the stored one.
RECURSIVE addGasTransactions_Replace(_, _)
addGasTransactions_Replace(existing, gasTransactions) ==
  IF gasTransactions = <<>> THEN existing
  ELSE LET g == Head(gasTransactions)
           combined == IF \E k \in DOMAIN existing : existing[k].id = g.id
                       THEN [k \in DOMAIN existing |->
                               IF existing[k].id = g.id THEN g ELSE existing[k]]
                       ELSE Append(existing, g)
       IN  addGasTransactions_Replace(combined, Tail(gasTransactions))

RECURSIVE addGasTransactions(_, _)
addGasTransactions(existing, gasTransactions) ==
  IF gasTransactions = <<>> THEN existing
  ELSE LET g == Head(gasTransactions)
           combined == IF \E k \in DOMAIN existing : existing[k].id = g.id
                       THEN existing ELSE Append(existing, g)
       IN  addGasTransactions(combined, Tail(gasTransactions))

SamePriceKey(p, price) ==
  /\ (p.symbol = price.symbol \/ p.contract_address = price.contract_address)
  /\ p.network = price.network
  /\ p.timestamp = price.timestamp

RECURSIVE addHistoricalPrices(_, _)
addHistoricalPrices(existing, prices) ==
  IF prices = <<>> THEN existing
  ELSE LET price == Head(prices)
           hits == {k \in DOMAIN existing : SamePriceKey(existing[k], price)}
           existingIndex == IF hits = {} THEN 0
                            ELSE CHOOSE k \in hits : \A m \in hits : k <= m
           combined == IF existingIndex > 0
                       THEN [existing EXCEPT ![existingIndex] = price]
                       ELSE Append(existing, price)
       IN  addHistoricalPrices(combined, Tail(prices))

clearWalletTransactions(stored, walletAddress) ==
  SelectSeq(stored, LAMBDA t : t.wallet_address # walletAddress)

clearWalletBalances(balances, walletAddress) ==
  SelectSeq(balances, LAMBDA b : b.wallet_address # walletAddress)

\* The balance is pushed whether or not its key is stored.
upsertTokenBalance_Push(balances, balance) == Append(balances, balance)

\* upsertTokenBalance: findIndex gives the first record of the key (0 here
\* for its -1).
upsertTokenBalance(balances, balance) ==
  LET hits == {k \in DOMAIN balances :
                 /\ balances[k].wallet_address = balance.wallet_address
                 /\ balances[k].symbol = balance.symbol
                 /\ balances[k].network = balance.network}
      index == IF hits = {} THEN 0 ELSE CHOOSE k \in hits : \A m \in hits : k <= m
  IN  IF index > 0 THEN [balances EXCEPT ![index] = balance]
      ELSE Append(balances, balance)

clearWalletGasTransactions(stored, walletAddress) ==
  SelectSeq(stored, LAMBDA g : g.wallet_address # walletAddress)

\* The balances of every wallet are cleared.
clearAllWalletData_EveryBalance(store, walletAddress) ==
  [raw |-> clearWalletTransactions(store.raw, walletAddress),
   gas |-> clearWalletGasTransactions(store.gas, walletAddress),
   balances |-> <<>>]

clearAllWalletData(store, walletAddress) ==
  [raw |-> clearWalletTransactions(store.raw, walletAddress),
   gas |-> clearWalletGasTransactions(store.gas, walletAddress),
   balances |-> clearWalletBalances(store.balances, walletAddress)]

updateWalletSync_Keep(sync, address, time) == sync

updateWalletSync(sync, address, time) == [sync EXCEPT ![address] = time]

-----------------------------------------------------------------------------
(* TransactionAPI: the requests.                                           *)

getAssetTransfers(address, network, from, key) ==
  [endpoint |-> "Asset transfers", toAddress |-> address, network |-> network,
   fromBlock |-> from, pageKey |-> key]

getTransactionReceipt(hash, network) ==
  [endpoint |-> "Transaction receipt", hash |-> hash, network |-> network]

\* null stands for the throw of "Cannot fetch prices ... without contract address".
getHistoricalPrices(symbol, contractAddress, network, startTime, endTime) ==
  IF symbol = "ETH"
  THEN [endpoint |-> "Historical prices", symbol |-> "ETH", network |-> NONE,
        address |-> NONE, startTime |-> startTime, endTime |-> endTime]
  ELSE IF contractAddress # NONE
  THEN [endpoint |-> "Historical prices", symbol |-> NONE, network |-> network,
        address |-> contractAddress, startTime |-> startTime, endTime |-> endTime]
  ELSE null

\* The bodies the sources can answer a request with, n transfers being on chain.
SourceBodies(r, n) ==
  CASE r.endpoint = "Asset transfers" ->
         {[result |-> TransfersPage(n, r.toAddress, r.fromBlock, r.pageKey)]}
    [] r.endpoint = "Transaction receipt" ->
         {[result |-> Receipt(r.hash)], [result |-> null]}
    [] r.endpoint = "Historical prices" ->
         {[data |-> PricePoints(IF r.symbol = "ETH" THEN "ETH" ELSE r.address,
                                r.startTime, r.endTime),
           currency |-> "usd"]}

-----------------------------------------------------------------------------
(* TransactionAPI: the import.  A state st of the import is the store, the *)
(* locals (frame), the await it stands at (pc) and the request it issues   *)
(* next (call); each operator below is the code from one await to the next.*)

NoFrame ==
  [walletAddress |-> NONE, network |-> NONE, fromBlock |-> NONE, pageKey |-> NONE,
   pageCount |-> 0, transactions |-> <<>>, uniqueHashes |-> <<>>, i |-> 0,
   gasTransactions |-> <<>>, receipt |-> null, queue |-> <<>>, j |-> 0,
   missedReceipts |-> 0, missedPrices |-> 0]

\* updateProgress: the listener, if there is one, is called with the event.
updateProgress_ToFirst(st, stage, current, total, currentItem) ==
  [st EXCEPT !.events = Append(@, [stage |-> stage, current |-> current, total |-> total,
                                   currentItem |-> currentItem]),
             !.handed = IF st.progressCallback = NONE THEN NONE ELSE "f"]

updateProgress(st, stage, current, total, currentItem) ==
  [st EXCEPT !.events = Append(@, [stage |-> stage, current |-> current, total |-> total,
                                   currentItem |-> currentItem]),
             !.handed = st.progressCallback]

RECURSIVE Distinct(_)
Distinct(seq) ==
  IF seq = <<>> THEN <<>>
  ELSE LET front == Distinct(SubSeq(seq, 1, Len(seq) - 1))
           x == seq[Len(seq)]
       IN  IF \E k \in DOMAIN front : front[k] = x THEN front ELSE Append(front, x)

MapSeq(seq, Op(_)) == [k \in DOMAIN seq |-> Op(seq[k])]

RECURSIVE Flatten(_)
Flatten(seqs) == IF seqs = <<>> THEN <<>> ELSE Head(seqs) \o Flatten(Tail(seqs))

FirstWhere(seq, Test(_)) ==
  LET hits == {k \in DOMAIN seq : Test(seq[k])}
  IN  IF hits = {} THEN null ELSE seq[CHOOSE k \in hits : \A m \in hits : k <= m]

Abs(x) == IF x < 0 THEN 0 - x ELSE x

fiveMinutesMs == 5

findExistingPrice_Strict(existingPrices, asset, contractAddress, network, timestamp) ==
  FirstWhere(existingPrices,
             LAMBDA price :
               /\ (price.symbol = asset \/ price.contract_address = contractAddress)
               /\ price.network = network
               /\ Abs(price.timestamp - timestamp) < fiveMinutesMs)

findExistingPrice(existingPrices, asset, contractAddress, network, timestamp) ==
  FirstWhere(existingPrices,
             LAMBDA price :
               /\ (price.symbol = asset \/ price.contract_address = contractAddress)
               /\ price.network = network
               /\ Abs(price.timestamp - timestamp) <= fiveMinutesMs)

\* What the caller of the import is left with: the import returned (ok) or
\* threw (error, with the message of the error).
Returned(st, status, message) ==
  [status |-> status, walletAddress |-> st.frame.walletAddress,
   missedReceipts |-> st.frame.missedReceipts, missedPrices |-> st.frame.missedPrices,
   error |-> message]

ImportFailed(st, message) ==
  updateProgress(st, "complete", 0, 100, <<"Import", "failed:">> \o message)

Fail_Synced(st, message) ==
  [ImportFailed(st, message)
     EXCEPT !.sync = updateWalletSync(st.sync, st.frame.walletAddress, st.time),
            !.pc = "idle", !.call = null, !.frame = NoFrame,
            !.outcome = Returned(st, "error", message)]

Fail_Rollback(st, message) ==
  [ImportFailed(st, message)
     EXCEPT !.raw = clearWalletTransactions(st.raw, st.frame.walletAddress),
            !.pc = "idle", !.call = null, !.frame = NoFrame,
            !.outcome = Returned(st, "error", message)]

\* importTransactionsForWallet, the catch: the last event, and the error is
\* thrown on to the caller.
Fail(st, message) ==
  [ImportFailed(st, message)
     EXCEPT !.pc = "idle", !.call = null, !.frame = NoFrame,
            !.outcome = Returned(st, "error", message)]

\* importTransactionsForWallet, step 4.
Finalize(st) ==
  [updateProgress(st, "complete", 100, 100, <<"Import", "completed", "successfully">>)
     EXCEPT !.sync = updateWalletSync(st.sync, st.frame.walletAddress, st.time),
            !.pc = "idle", !.call = null, !.frame = NoFrame,
            !.outcome = Returned(st, "ok", <<>>)]

\* importHistoricalPrices: the loop from item j of the work list on, up to
\* the first item that needs a request.
RECURSIVE PricingFrom(_, _)
PricingFrom(st, j) ==
  IF j > Len(st.frame.queue) THEN Finalize(st)
  ELSE LET tx == st.frame.queue[j]
           checking == updateProgress(st, "pricing", j, Len(st.frame.transactions),
                                      <<"Checking", tx.asset, "price">>)
           existingPrice == findExistingPrice(st.prices, tx.asset, tx.contract_address,
                                              st.frame.network, tx.timestamp)
           request == getHistoricalPrices(tx.asset, tx.contract_address, st.frame.network,
                                          tx.timestamp - 2, tx.timestamp + 20)
       IN  IF existingPrice # null THEN PricingFrom(checking, j + 1)
           ELSE IF request = null THEN PricingFrom(checking, j + 1)
           ELSE [checking EXCEPT !.pc = "pricing", !.frame.j = j, !.call = request]

importHistoricalPrices(st) ==
  LET transactions == getRawTransactionsByWallet(st.raw, st.frame.walletAddress)
      uniqueAssets == MapSeq(transactions,
                             LAMBDA tx : [asset |-> tx.asset, contract |-> tx.contract_address])
      queue == Flatten(MapSeq(uniqueAssets,
                 LAMBDA a : SelectSeq(transactions,
                              LAMBDA tx : tx.asset = a.asset /\ tx.contract_address = a.contract)))
  IN  PricingFrom([st EXCEPT !.frame.transactions = transactions, !.frame.queue = queue], 1)

\* The price stage announced under the name of the gas stage.
PriceStage_AsGasStage(st) ==
  importHistoricalPrices(updateProgress(st, "gas_fees", 0, 0,
                                        <<"Preparing", "price", "import...">>))

\* importTransactionsForWallet, step 3.
PriceStage(st) ==
  importHistoricalPrices(updateProgress(st, "pricing", 0, 0,
                                        <<"Preparing", "price", "import...">>))

\* importHistoricalPrices, after the await of getHistoricalPrices.
OnHistoricalPrices_Abort(st, answer) ==
  LET tx == st.frame.queue[st.frame.j]
      historicalPrices ==
        [k \in DOMAIN answer.result.data |->
           [symbol |-> tx.asset, contract_address |-> tx.contract_address,
            network |-> st.frame.network, price |-> answer.result.data[k].value,
            currency |-> answer.result.currency,
            timestamp |-> answer.result.data[k].timestamp,
            source |-> "alchemy_historical"]]
  IN  IF ~ answer.ok THEN Fail(st, answer.error)
      ELSE PricingFrom([st EXCEPT !.prices = addHistoricalPrices(st.prices, historicalPrices)],
                       st.frame.j + 1)

HistoricalPrice(point, tx, network, currency) ==
  [symbol |-> tx.asset, contract_address |-> tx.contract_address, network |-> network,
   price |-> point.value, currency |-> currency, timestamp |-> point.timestamp,
   source |-> "alchemy_historical"]

OnHistoricalPrices(st, answer) ==
  LET tx == st.frame.queue[st.frame.j]
      stored ==
        IF answer.ok /\ Len(answer.result.data) > 0
        THEN addHistoricalPrices(st.prices,
               MapSeq(answer.result.data,
                      LAMBDA point : HistoricalPrice(point, tx, st.frame.network,
                                                     answer.result.currency)))
        ELSE st.prices
  IN  PricingFrom([st EXCEPT !.prices = stored,
                             !.frame.missedPrices = IF answer.ok THEN @ ELSE @ + 1],
                  st.frame.j + 1)

\* importGasFees: the loop from hash i on, and what follows the loop.
GasFeesFrom(st, i) ==
  IF i <= Len(st.frame.uniqueHashes)
  THEN [updateProgress(st, "gas_fees", i, Len(st.frame.uniqueHashes),
                       <<"Fetching", "gas", "for", "tx", st.frame.uniqueHashes[i]>>)
          EXCEPT !.pc = "gas_fees", !.frame.i = i,
                 !.call = getTransactionReceipt(st.frame.uniqueHashes[i], st.frame.network)]
  ELSE PriceStage(
         [st EXCEPT !.gas = IF Len(st.frame.gasTransactions) > 0
                            THEN addGasTransactions(st.gas, st.frame.gasTransactions)
                            ELSE st.gas])

UniqueHashes_SkipFirst(transactions, existingGasTransactions) ==
  LET hashes == SelectSeq(Distinct(MapSeq(transactions, LAMBDA tx : tx.hash)),
                          LAMBDA hash : ~ \E k \in DOMAIN existingGasTransactions :
                                            existingGasTransactions[k].hash = hash)
  IN  IF hashes = <<>> THEN hashes ELSE Tail(hashes)

\* Every hash of the wallet's transfers, with or without gas record.
UniqueHashes_All(transactions, existingGasTransactions) ==
  Distinct(MapSeq(transactions, LAMBDA tx : tx.hash))

UniqueHashes(transactions, existingGasTransactions) ==
  SelectSeq(Distinct(MapSeq(transactions, LAMBDA tx : tx.hash)),
            LAMBDA hash : ~ \E k \in DOMAIN existingGasTransactions :
                              existingGasTransactions[k].hash = hash)

importGasFees(st) ==
  LET transactions == getRawTransactionsByWallet(st.raw, st.frame.walletAddress)
      uniqueHashes == UniqueHashes(transactions, st.gas)
  IN  IF Len(uniqueHashes) = 0 THEN PriceStage(st)
      ELSE GasFeesFrom([st EXCEPT !.frame.transactions = transactions,
                                  !.frame.uniqueHashes = uniqueHashes,
                                  !.frame.gasTransactions = <<>>], 1)

\* importTransactionsForWallet, step 2.
GasStage(st) ==
  importGasFees(updateProgress(st, "gas_fees", 0, 0, <<"Preparing", "gas", "fee", "import...">>))

GasTransaction(hash, walletAddress, receipt, gasCost, timestamp, createdAt) ==
  [id |-> <<hash, "gas">>, wallet_address |-> walletAddress, hash |-> hash,
   block_num |-> receipt.blockNumber, gas_used |-> receipt.gasUsed,
   gas_price |-> receipt.effectiveGasPrice, gas_cost_eth |-> gasCost.ethCost,
   gas_cost_usd |-> gasCost.usdCost, timestamp |-> timestamp, created_at |-> createdAt]

\* importGasFees, from the ETH price on: the record is pushed, the loop goes
\* on.  The page has loaded crypto.ts, which sets BigNumber to ROUND_DOWN.
PushGas(st, receipt, ethPrice) ==
  LET hash == st.frame.uniqueHashes[st.frame.i]
      relatedTx == FirstWhere(st.frame.transactions, LAMBDA tx : tx.hash = hash)
      gasCost == calculateGasCost(receipt.gasUsed, receipt.effectiveGasPrice, ethPrice,
                                  "ROUND_DOWN")
  IN  GasFeesFrom([st EXCEPT !.frame.gasTransactions =
                       Append(@, GasTransaction(hash, st.frame.walletAddress, receipt,
                                                gasCost, relatedTx.timestamp, st.time)),
                             !.frame.receipt = null],
                  st.frame.i + 1)

OnTransactionReceipt_Abort(st, answer) ==
  IF answer.ok /\ answer.result.result # null
  THEN LET hash == st.frame.uniqueHashes[st.frame.i]
           relatedTx == FirstWhere(st.frame.transactions, LAMBDA tx : tx.hash = hash)
           existingPrice == findExistingPrice(st.prices, "ETH", NONE, "eth-mainnet",
                                              relatedTx.timestamp)
       IN  IF existingPrice # null
           THEN PushGas(st, answer.result.result, existingPrice.price)
           ELSE [st EXCEPT !.pc = "eth_price", !.frame.receipt = answer.result.result,
                           !.call = getHistoricalPrices("ETH", NONE, "eth-mainnet",
                                                        relatedTx.timestamp - 5,
                                                        relatedTx.timestamp + 5)]
  ELSE Fail(st, answer.error)

\* A receipt that failed is recorded like one that came.
OnTransactionReceipt_MissRecorded(st, answer) ==
  PushGas(st,
          IF answer.ok /\ answer.result.result # null THEN answer.result.result
          ELSE Receipt(st.frame.uniqueHashes[st.frame.i]),
          DecimalString(2000))

\* importGasFees, after the await of getTransactionReceipt; getEthPriceAtTime
\* up to its await.
OnTransactionReceipt(st, answer) ==
  IF answer.ok /\ answer.result.result # null
  THEN LET hash == st.frame.uniqueHashes[st.frame.i]
           relatedTx == FirstWhere(st.frame.transactions, LAMBDA tx : tx.hash = hash)
           existingPrice == findExistingPrice(st.prices, "ETH", NONE, "eth-mainnet",
                                              relatedTx.timestamp)
       IN  IF existingPrice # null
           THEN PushGas(st, answer.result.result, existingPrice.price)
           ELSE [st EXCEPT !.pc = "eth_price", !.frame.receipt = answer.result.result,
                           !.call = getHistoricalPrices("ETH", NONE, "eth-mainnet",
                                                        relatedTx.timestamp - 5,
                                                        relatedTx.timestamp + 5)]
  ELSE GasFeesFrom([st EXCEPT !.frame.missedReceipts = @ + 1], st.frame.i + 1)

\* getEthPriceAtTime after its await, and importGasFees after it.
OnEthPrice_BackToTransfers(st, answer) ==
  [st EXCEPT !.pc = "asset_transfers",
             !.call = getAssetTransfers(st.frame.walletAddress, st.frame.network,
                                        st.frame.fromBlock, NONE)]

OnEthPrice(st, answer) ==
  PushGas(st, st.frame.receipt,
          IF answer.ok /\ Len(answer.result.data) > 0
          THEN answer.result.data[1].value
          ELSE DecimalString(2000))

\* String.toLowerCase, on the addresses that occur.
toLowerCase(str) ==
  CASE str = "wA" -> "wa"
    [] str = "WA" -> "wa"
    [] str = "wB" -> "wb"
    [] str = "X1" -> "x1"
    [] str = "cUSDC" -> "cusdc"
    [] str = "cANT" -> "cant"
    [] OTHER -> str

\* classifyTransaction.  A missing field is NONE, and x?.toLowerCase() of a
\* missing x is missing too: two missing values are equal.
classifyTransaction(classifications, transfer, walletAddress) ==
  LET fromClassification ==
        FirstWhere(classifications,
                   LAMBDA c :
                     \/ toLowerCase(c.wallet_address) = toLowerCase(transfer.from)
                     \/ toLowerCase(c.contract_address)
                          = toLowerCase(transfer.rawContract.address))
      toClassification ==
        FirstWhere(classifications,
                   LAMBDA c :
                     \/ toLowerCase(c.wallet_address) = toLowerCase(transfer.to)
                     \/ toLowerCase(c.contract_address)
                          = toLowerCase(transfer.rawContract.address))
  IN  IF toLowerCase(transfer.to) = toLowerCase(walletAddress)
      THEN (IF fromClassification # null THEN fromClassification.transaction_class
            ELSE "OtherIncome")
      ELSE (IF toClassification # null THEN toClassification.transaction_class
            ELSE "Withdraw")

\* importAssetTransfers: one page of the response.
RawTransaction(transfer, walletAddress, transactionClass, createdAt) ==
  [id |-> <<transfer.blockNum, transfer.uniqueId>>, wallet_address |-> walletAddress,
   block_num |-> transfer.blockNum, unique_id |-> transfer.uniqueId, hash |-> transfer.hash,
   from_address |-> transfer.from, to_address |-> transfer.to, asset |-> transfer.asset,
   contract_address |-> transfer.rawContract.address,
   timestamp |-> transfer.blockTimestamp, transaction_class |-> transactionClass,
   created_at |-> createdAt]

StoreTransfersPage_NoDedup(stored, classifications, transfers, walletAddress, createdAt) ==
  stored \o MapSeq(transfers,
                   LAMBDA transfer :
                     RawTransaction(transfer, walletAddress,
                                    classifyTransaction(classifications, transfer,
                                                        walletAddress),
                                    createdAt))

\* The rules are consulted only while the store is empty.
StoreTransfersPage_ClassifyOnce(stored, classifications, transfers, walletAddress, createdAt) ==
  LET rawTransactions ==
        MapSeq(SelectSeq(transfers,
                         LAMBDA transfer :
                           ~ \E k \in DOMAIN stored :
                               stored[k].id = <<transfer.blockNum, transfer.uniqueId>>),
               LAMBDA transfer :
                 RawTransaction(transfer, walletAddress,
                                classifyTransaction(IF stored = <<>> THEN classifications
                                                    ELSE <<>>,
                                                    transfer, walletAddress),
                                createdAt))
  IN  IF Len(rawTransactions) > 0 THEN addRawTransactions(stored, rawTransactions)
      ELSE stored

StoreTransfersPage(stored, classifications, transfers, walletAddress, createdAt) ==
  LET rawTransactions ==
        MapSeq(SelectSeq(transfers,
                         LAMBDA transfer :
                           ~ \E k \in DOMAIN stored :
                               stored[k].id = <<transfer.blockNum, transfer.uniqueId>>),
               LAMBDA transfer :
                 RawTransaction(transfer, walletAddress,
                                classifyTransaction(classifications, transfer,
                                                    walletAddress),
                                createdAt))
  IN  IF Len(rawTransactions) > 0 THEN addRawTransactions(stored, rawTransactions)
      ELSE stored

\* The event carries the total where the page count belongs.
FetchingPage_Total(st, pageCount, pageKey) ==
  updateProgress(st, "asset_transfers", pageCount + (IF pageKey # NONE THEN 1 ELSE 0),
                 pageCount + (IF pageKey # NONE THEN 1 ELSE 0),
                 <<"Fetching", "asset", "transfers", "page">>)

\* importAssetTransfers: the event at the head of the loop, pageCount being
\* the page about to be fetched and pageKey the key it is fetched with.
FetchingPage(st, pageCount, pageKey) ==
  updateProgress(st, "asset_transfers", pageCount,
                 pageCount + (IF pageKey # NONE THEN 1 ELSE 0),
                 <<"Fetching", "asset", "transfers", "page">>)

\* The next page is asked for without the cursor.
OnAssetTransfers_NoCursor(st, answer) ==
  IF ~ answer.ok THEN Fail(st, answer.error)
  ELSE LET result == answer.result.result
           stored == IF result.transfers # NONE
                     THEN StoreTransfersPage(st.raw, st.rules, result.transfers,
                                             st.frame.walletAddress, st.time)
                     ELSE st.raw
       IN  IF result.pageKey # NONE
           THEN [FetchingPage(st, st.frame.pageCount + 1, result.pageKey)
                   EXCEPT !.raw = stored, !.frame.pageKey = result.pageKey,
                          !.frame.pageCount = @ + 1,
                          !.call = getAssetTransfers(st.frame.walletAddress, st.frame.network,
                                                     st.frame.fromBlock, NONE)]
           ELSE GasStage([st EXCEPT !.raw = stored, !.frame.pageKey = NONE])

\* importAssetTransfers, after the await of getAssetTransfers.
OnAssetTransfers(st, answer) ==
  IF ~ answer.ok THEN Fail(st, answer.error)
  ELSE LET result == answer.result.result
           stored == IF result.transfers # NONE
                     THEN StoreTransfersPage(st.raw, st.rules, result.transfers,
                                             st.frame.walletAddress, st.time)
                     ELSE st.raw
       IN  IF result.pageKey # NONE
           THEN [FetchingPage(st, st.frame.pageCount + 1, result.pageKey)
                   EXCEPT !.raw = stored, !.frame.pageKey = result.pageKey,
                          !.frame.pageCount = @ + 1,
                          !.call = getAssetTransfers(st.frame.walletAddress, st.frame.network,
                                                     st.frame.fromBlock, result.pageKey)]
           ELSE GasStage([st EXCEPT !.raw = stored, !.frame.pageKey = NONE])

\* Math.max over the block numbers of the wallet's transfers.
RECURSIVE MathMax(_)
MathMax(numbers) ==
  IF Len(numbers) = 1 THEN numbers[1]
  ELSE Max(numbers[1], MathMax(Tail(numbers)))

FromBlock_Genesis(existingTransactions) == NONE

\* The import resumes behind the latest stored block.
FromBlock_BehindLatest(existingTransactions) ==
  IF Len(existingTransactions) > 0
  THEN toString16(MathMax(MapSeq(existingTransactions,
                                 LAMBDA tx : parseInt16(tx.block_num))) + 1)
  ELSE NONE

FromBlock(existingTransactions) ==
  LET latestBlockNum ==
        IF Len(existingTransactions) > 0
        THEN MathMax(MapSeq(existingTransactions, LAMBDA tx : parseInt16(tx.block_num)))
        ELSE 0
  IN  IF latestBlockNum > 0 THEN toString16(latestBlockNum) ELSE NONE

\* importTransactionsForWallet without the test of the API key.
importTransactionsForWallet_AnyKey(st, walletAddress, network) ==
  LET existingTransactions == getRawTransactionsByWallet(st.raw, walletAddress)
      fromBlock == FromBlock(existingTransactions)
      initializing == updateProgress(st, "asset_transfers", 0, 0,
                                     <<"Initializing", "asset", "transfer", "import...">>)
  IN  [FetchingPage(initializing, 1, NONE)
         EXCEPT !.pc = "asset_transfers",
                !.frame = [NoFrame EXCEPT !.walletAddress = walletAddress,
                                          !.network = network,
                                          !.fromBlock = fromBlock,
                                          !.pageCount = 1],
                !.call = getAssetTransfers(walletAddress, network, fromBlock, NONE)]

\* importTransactionsForWallet up to the first await, or to the throw that
\* precedes its try.
importTransactionsForWallet(st, walletAddress, network) ==
  LET existingTransactions == getRawTransactionsByWallet(st.raw, walletAddress)
      fromBlock == FromBlock(existingTransactions)
      initializing == updateProgress(st, "asset_transfers", 0, 0,
                                     <<"Initializing", "asset", "transfer", "import...">>)
  IN  IF st.apiKey = ""
      THEN [st EXCEPT !.pc = "idle", !.call = null, !.frame = NoFrame,
                      !.outcome = [status |-> "error", walletAddress |-> walletAddress,
                                   missedReceipts |-> 0, missedPrices |-> 0,
                                   error |-> <<"API", "key", "is", "not", "configured">>]]
      ELSE [FetchingPage(initializing, 1, NONE)
              EXCEPT !.pc = "asset_transfers",
                     !.frame = [NoFrame EXCEPT !.walletAddress = walletAddress,
                                               !.network = network,
                                               !.fromBlock = fromBlock,
                                               !.pageCount = 1],
                     !.call = getAssetTransfers(walletAddress, network, fromBlock, NONE)]

-----------------------------------------------------------------------------
(* The actions.                                                            *)

\* How many imports one behaviour starts.
MaxImports == 2

NoOutcome ==
  [status |-> "none", walletAddress |-> NONE, missedReceipts |-> 0, missedPrices |-> 0,
   error |-> <<>>]

NoSnapshot == [latestBlock |-> 0, synced |-> FALSE, chainLen |-> 0]

NoCalled == [fn |-> NONE, args |-> <<>>, returned |-> NONE]

NoCall == [endpoint |-> NONE, retried |-> FALSE]

\* The highest block among the stored transfers of the wallet, 0 when it has none.
LatestBlock(stored, walletAddress) ==
  LET blocks == {parseInt16(stored[k].block_num) :
                   k \in {m \in DOMAIN stored : stored[m].wallet_address = walletAddress}}
  IN  IF blocks = {} THEN 0 ELSE CHOOSE b \in blocks : \A c \in blocks : c <= b

NoBatch == [i |-> 0, call |-> 0, pausing |-> FALSE, attached |-> FALSE]

\* The wallets of the store, in the order of storage.getWallets().
WalletList == <<"wA", "wB">>

\* The callbacks the page registers, one by mount.
PageCallbacks == {"f", "g"}

\* The state after construction, the page open, but for the chain, the stored
\* prices and rules, and the API key of the settings.
OpenedPage ==
  /\ rateLimitDelay = Ms(100)
  /\ progressCallback = "f"
  /\ batch = NoBatch
  /\ progress = [p \in Procs |-> <<>>]
  /\ handed = [p \in Procs |-> NONE]
  /\ cpc = [p \in Procs |-> "idle"]
  /\ req = [p \in Procs |-> null]
  /\ retryCount = [p \in Procs |-> 0]
  /\ reply = [p \in Procs |-> null]
  /\ slept = [p \in Procs |-> 0]
  /\ waits = [p \in Procs |-> <<>>]
  /\ answers = [p \in Procs |-> <<>>]
  /\ raw_transactions = <<>>
  /\ gas_transactions = <<>>
  /\ last_sync = [w \in Wallets |-> 0]
  /\ loading = FALSE
  /\ outcome = NoOutcome
  /\ attached = [p \in Procs |-> FALSE]
  /\ pc = [p \in Procs |-> "idle"]
  /\ frame = [p \in Procs |-> NoFrame]
  /\ now = 0
  /\ atStart = [p \in Procs |-> NoSnapshot]
  /\ lastCall = NoCall
  /\ called = NoCalled
  /\ synced = {}

\* The same, no balance being stored.
Opened == OpenedPage /\ token_balances = <<>>

\* The same, the API key being configured.
Mounted == Opened /\ apiKey = "key"

\* The state after construction, but for the chain.
Constructed == Mounted /\ historical_prices = <<>> /\ address_classifications = <<>>

\* Nothing has been mined yet.
Init == Constructed /\ chainLen = 0

\* The retry count of the call before is kept.
makeRequest_KeepCount(p, r) ==
  /\ cpc' = [cpc EXCEPT ![p] = "attempt"]
  /\ req' = [req EXCEPT ![p] = r]
  /\ reply' = [reply EXCEPT ![p] = null]
  /\ slept' = [slept EXCEPT ![p] = SleepBeforeCall]
  /\ waits' = [waits EXCEPT ![p] = <<>>]
  /\ answers' = [answers EXCEPT ![p] = <<>>]
  /\ UNCHANGED <<rateLimitDelay, retryCount>>

\* makeRequest up to its sleep: call p is in flight with request r.
makeRequest(p, r) ==
  /\ cpc' = [cpc EXCEPT ![p] = "attempt"]
  /\ req' = [req EXCEPT ![p] = r]
  /\ retryCount' = [retryCount EXCEPT ![p] = 0]
  /\ reply' = [reply EXCEPT ![p] = null]
  /\ slept' = [slept EXCEPT ![p] = SleepBeforeCall]
  /\ waits' = [waits EXCEPT ![p] = <<>>]
  /\ answers' = [answers EXCEPT ![p] = <<>>]
  /\ UNCHANGED rateLimitDelay

\* The caller has taken the reply of call p and issues no further request.
Release(p) ==
  /\ cpc' = [cpc EXCEPT ![p] = "idle"]
  /\ req' = [req EXCEPT ![p] = null]
  /\ retryCount' = [retryCount EXCEPT ![p] = 0]
  /\ reply' = [reply EXCEPT ![p] = null]
  /\ slept' = [slept EXCEPT ![p] = 0]
  /\ waits' = [waits EXCEPT ![p] = <<>>]
  /\ answers' = [answers EXCEPT ![p] = <<>>]
  /\ UNCHANGED rateLimitDelay

\* retryWithBackoff: one attempt of call p, answered by one of `offered`, and
\* the sleep before the next attempt.
retryWithBackoff(p, offered) ==
  /\ cpc[p] = "attempt"
  /\ \E a \in offered :
       /\ answers' = [answers EXCEPT ![p] = Append(@, a)]
       /\ IF a.kind = "ok"
          THEN /\ \E body \in SourceBodies(req[p], chainLen) :
                    reply' = [reply EXCEPT ![p] = [ok |-> TRUE, result |-> body, error |-> <<>>]]
               /\ rateLimitDelay' = DelayOnSuccess(rateLimitDelay)
               /\ cpc' = [cpc EXCEPT ![p] = "returned"]
               /\ UNCHANGED <<retryCount, waits>>
          ELSE LET message == OperationError(a, req[p].endpoint)
               IN  IF ShouldRetry(message, retryCount[p])
                   THEN /\ rateLimitDelay' = DelayOnRetry(rateLimitDelay)
                        /\ waits' = [waits EXCEPT
                                       ![p] = Append(@, WaitTime(rateLimitDelay', retryCount[p]))]
                        /\ retryCount' = [retryCount EXCEPT ![p] = @ + 1]
                        /\ UNCHANGED <<cpc, reply>>
                   ELSE /\ reply' = [reply EXCEPT
                                       ![p] = [ok |-> FALSE, result |-> null, error |-> message]]
                        /\ cpc' = [cpc EXCEPT ![p] = "returned"]
                        /\ UNCHANGED <<rateLimitDelay, retryCount, waits>>
  /\ UNCHANGED <<req, slept>>

\* The state of import p, as the operators of the import take it.
State(p) ==
  [raw |-> raw_transactions, gas |-> gas_transactions, prices |-> historical_prices,
   rules |-> address_classifications, sync |-> last_sync, pc |-> pc[p], frame |-> frame[p], call |-> null,
   outcome |-> NoOutcome, time |-> now, apiKey |-> apiKey,
   progressCallback |-> progressCallback, events |-> progress[p], handed |-> handed[p]]

\* The import p has run to its next await, or to its end, and stands at st.
Commit(p, st) ==
  /\ raw_transactions' = st.raw
  /\ gas_transactions' = st.gas
  /\ historical_prices' = st.prices
  /\ last_sync' = st.sync
  /\ UNCHANGED <<address_classifications, token_balances>>
  /\ pc' = [pc EXCEPT ![p] = st.pc]
  /\ frame' = [frame EXCEPT ![p] = st.frame]
  /\ progress' = [progress EXCEPT ![p] = st.events]
  /\ handed' = [handed EXCEPT ![p] = st.handed]
  /\ IF st.call # null THEN makeRequest(p, st.call) ELSE Release(p)

\* The caller of import p, after its await: importTransactions of the page
\* (its success or its catch, and its finally), or processAllWallets (the
\* pause that follows the import, or its catch and finally).  A page that is
\* no longer mounted shows nothing.
PageAfter(p, st) ==
  IF st.pc = "idle"
  THEN /\ synced' = IF /\ st.outcome.status = "ok"
                       /\ st.outcome.missedReceipts = 0
                       /\ st.outcome.missedPrices = 0
                       /\ atStart[p].chainLen = chainLen
                    THEN synced \cup {st.outcome.walletAddress} ELSE synced
       /\ attached' = [attached EXCEPT ![p] = FALSE]
       /\ IF batch.i > 0 /\ batch.call = p
          THEN IF st.outcome.status = "ok"
               THEN /\ batch' = [batch EXCEPT !.pausing = TRUE]
                    /\ UNCHANGED <<loading, outcome>>
               ELSE /\ batch' = NoBatch
                    /\ IF attached[p]
                       THEN loading' = FALSE /\ outcome' = st.outcome
                       ELSE UNCHANGED <<loading, outcome>>
          ELSE /\ UNCHANGED batch
               /\ IF attached[p]
                  THEN loading' = FALSE /\ outcome' = st.outcome
                  ELSE UNCHANGED <<loading, outcome>>
  ELSE UNCHANGED <<synced, attached, loading, outcome, batch>>

\* The page is open.
PageOpen == progressCallback # NONE

\* What a handler of the page does around the first step of import p,
\* which stands at st: the import runs, or it has thrown already.
PageBefore(p, st) ==
  IF st.pc = "idle"
  THEN loading' = FALSE /\ outcome' = st.outcome /\ UNCHANGED attached
  ELSE /\ loading' = TRUE
       /\ outcome' = NoOutcome
       /\ attached' = [attached EXCEPT ![p] = TRUE]

\* The call of importTransactionsForWallet by a handler of the page.
CallImport(p, walletAddress, st) ==
  /\ now' = now + 1
  /\ atStart' = [atStart EXCEPT
                   ![p] = [latestBlock |-> LatestBlock(raw_transactions, walletAddress),
                           synced |-> walletAddress \in synced,
                           chainLen |-> chainLen]]
  /\ Commit(p, st)
  /\ UNCHANGED <<chainLen, synced, lastCall, called, apiKey, progressCallback>>

\* The page: importTransactions(walletAddress), up to the first await of the import.
\* The state import p starts from.
Fresh(p) == [State(p) EXCEPT !.time = now + 1, !.events = <<>>, !.handed = NONE]

importTransactions(walletAddress) ==
  /\ PageOpen
  /\ ~ loading
  /\ now < MaxImports
  /\ \E p \in Procs :
       /\ pc[p] = "idle" /\ cpc[p] = "idle"
       /\ \A q \in Procs : q < p => pc[q] # "idle"
       /\ LET st == importTransactionsForWallet(Fresh(p), walletAddress, "arb-mainnet")
          IN  CallImport(p, walletAddress, st) /\ PageBefore(p, st)
  /\ UNCHANGED batch

\* The page: processAllWallets, up to the first await of the first import.
processAllWallets ==
  /\ PageOpen
  /\ ~ loading
  /\ now < MaxImports
  /\ \E p \in Procs :
       /\ pc[p] = "idle" /\ cpc[p] = "idle"
       /\ \A q \in Procs : q < p => pc[q] # "idle"
       /\ LET st == importTransactionsForWallet(Fresh(p), WalletList[1], "arb-mainnet")
          IN  /\ CallImport(p, WalletList[1], st)
              /\ PageBefore(p, st)
              /\ batch' = IF st.pc = "idle" THEN NoBatch
                          ELSE [i |-> 1, call |-> p, pausing |-> FALSE, attached |-> TRUE]

\* processAllWallets after the pause that follows an import: the import of
\* the next wallet up to its first await, or the end of the loop.
PauseReturn ==
  /\ batch.pausing
  /\ LET p == batch.call
     IN  IF batch.i < Len(WalletList)
         THEN LET walletAddress == WalletList[batch.i + 1]
                  st == importTransactionsForWallet(Fresh(p), walletAddress, "arb-mainnet")
              IN  /\ CallImport(p, walletAddress, st)
                  /\ IF st.pc = "idle"
                     THEN /\ batch' = NoBatch
                          /\ UNCHANGED attached
                          /\ IF batch.attached
                             THEN loading' = FALSE /\ outcome' = st.outcome
                             ELSE UNCHANGED <<loading, outcome>>
                     ELSE /\ batch' = [batch EXCEPT !.i = @ + 1, !.pausing = FALSE]
                          /\ attached' = [attached EXCEPT ![p] = batch.attached]
                          /\ UNCHANGED <<loading, outcome>>
         ELSE /\ batch' = NoBatch
              /\ IF batch.attached
                 THEN /\ loading' = FALSE
                      /\ outcome' = [NoOutcome EXCEPT !.status = "ok"]
                 ELSE UNCHANGED <<loading, outcome>>
              /\ UNCHANGED <<clientVars, storeVars, attached, importVars, envVars>>

\* The import p goes on from the await it stands at with the reply of its call.
Resume(p, stage, Continue(_, _)) ==
  /\ pc[p] = stage
  /\ cpc[p] = "returned"
  /\ LET st == Continue(State(p), reply[p])
     IN  Commit(p, st) /\ PageAfter(p, st)
  /\ UNCHANGED <<envVars, atStart>>

AssetTransfersReturn == \E p \in Procs : Resume(p, "asset_transfers", OnAssetTransfers)

TransactionReceiptReturn == \E p \in Procs : Resume(p, "gas_fees", OnTransactionReceipt)

EthPriceReturn == \E p \in Procs : Resume(p, "eth_price", OnEthPrice)

HistoricalPricesReturn == \E p \in Procs : Resume(p, "pricing", OnHistoricalPrices)

\* The answers the network gives a running import: the request succeeds, or
\* fails in a way the client does not retry.  (What the client does with the
\* other answers is the subject of SpecClient.)
ImportAnswers ==
  {a \in NetworkAnswers :
     \/ a.kind \in {"ok", "abort"}
     \/ a.kind = "http" /\ a.status = "500" /\ a.body = <<>>}

ImportAttempt ==
  \E p \in Procs :
    /\ pc[p] # "idle"
    /\ retryWithBackoff(p, ImportAnswers)
    /\ UNCHANGED <<storeVars, pageVars, importVars, envVars>>

\* The page: clearTransactions(walletAddress), the button being disabled while loading.
clearTransactions(walletAddress) ==
  /\ PageOpen
  /\ ~ loading
  /\ LET cleared == clearAllWalletData([raw |-> raw_transactions,
                                        gas |-> gas_transactions,
                                        balances |-> token_balances], walletAddress)
     IN  /\ raw_transactions' = cleared.raw
         /\ gas_transactions' = cleared.gas
         /\ token_balances' = cleared.balances
  /\ outcome' = [status |-> "cleared", walletAddress |-> walletAddress,
                 missedReceipts |-> 0, missedPrices |-> 0, error |-> <<>>]
  /\ synced' = {}
  /\ UNCHANGED <<clientVars, historical_prices, address_classifications, last_sync,
                 loading, attached, batch, pc, frame, progress, handed, atStart, envVars>>

\* The chain: the next transfer is mined.
NewTransfer ==
  /\ chainLen < ChainSize
  /\ chainLen' = chainLen + 1
  /\ synced' = {}
  /\ UNCHANGED <<clientVars, storeVars, pageVars, pc, frame, progress, handed, atStart,
                 now, lastCall, called, apiKey, progressCallback>>

\* The page is left: onDestroy.  What the page held is gone with it; the
\* handlers that stand at an await go on.
onDestroy ==
  /\ PageOpen
  /\ progressCallback' = NONE
  /\ loading' = FALSE
  /\ outcome' = NoOutcome
  /\ attached' = [p \in Procs |-> FALSE]
  /\ batch' = [batch EXCEPT !.attached = FALSE]
  /\ UNCHANGED <<clientVars, storeVars, importVars, chainLen, now, lastCall, called, apiKey>>

\* The page is opened: onMount registers its callback.
onMount(callback) ==
  /\ ~ PageOpen
  /\ progressCallback' = callback
  /\ UNCHANGED <<clientVars, storeVars, pageVars, importVars, chainLen, now, lastCall,
                 called, apiKey>>

\* The page is left and opened again: onDestroy, onMount.
Remount ==
  /\ loading' = FALSE
  /\ outcome' = NoOutcome
  /\ attached' = [p \in Procs |-> FALSE]
  /\ batch' = [batch EXCEPT !.attached = FALSE]
  /\ UNCHANGED <<clientVars, storeVars, importVars, envVars>>

StartImport == \E w \in Wallets : importTransactions(w)

Clear == \E w \in Wallets : clearTransactions(w)

Next ==
  \/ StartImport
  \/ ImportAttempt
  \/ AssetTransfersReturn
  \/ TransactionReceiptReturn
  \/ EthPriceReturn
  \/ HistoricalPricesReturn
  \/ Clear
  \/ NewTransfer

\* One page, never left: imports run one at a time.
Spec == Init /\ [][Next]_vars

\* The page can be left and opened again while an import runs: the import
\* goes on, and the page accepts the next one.
\* The network answers the request of a running import.
ImportSuccess ==
  \E p \in Procs :
    /\ pc[p] # "idle"
    /\ retryWithBackoff(p, {[kind |-> "ok"]})
    /\ UNCHANGED <<storeVars, pageVars, importVars, envVars>>

NextRemount ==
  \/ StartImport
  \/ ImportSuccess
  \/ AssetTransfersReturn
  \/ TransactionReceiptReturn
  \/ EthPriceReturn
  \/ HistoricalPricesReturn
  \/ Clear
  \/ Remount

\* The first transaction, with all its transfers, has been mined.
InitRemount ==
  /\ Constructed
  /\ chainLen = Cardinality({k \in DOMAIN AllTransfers : AllTransfers[k].hash = AllTransfers[1].hash})

SpecRemount == InitRemount /\ [][NextRemount]_vars

\* The store has been filled from a file (importDatabase) before the imports:
\* it holds some of these prices.  Everything is mined, every request succeeds.
StoredPrices ==
  << [symbol |-> "ETH", contract_address |-> NONE, network |-> "eth-mainnet",
      price |-> DecimalString(3000), currency |-> "usd", timestamp |-> 5,
      source |-> "alchemy_historical"],
     [symbol |-> "ETH", contract_address |-> NONE, network |-> "eth-mainnet",
      price |-> DecimalString(4000), currency |-> "usd", timestamp |-> 12,
      source |-> "alchemy_historical"],
     [symbol |-> "ETH", contract_address |-> NONE, network |-> "eth-mainnet",
      price |-> DecimalString(5000), currency |-> "usd", timestamp |-> 23,
      source |-> "alchemy_historical"],
     [symbol |-> "USDC", contract_address |-> "cUSDC", network |-> "arb-mainnet",
      price |-> DecimalString(1), currency |-> "usd", timestamp |-> 12,
      source |-> "alchemy_historical"],
     [symbol |-> "USDC", contract_address |-> "cUSDC", network |-> "arb-mainnet",
      price |-> DecimalString(1), currency |-> "usd", timestamp |-> 46,
      source |-> "alchemy_historical"] >>

importDatabase(kept) ==
  SelectSeq(StoredPrices, LAMBDA price : price.timestamp \in kept)

InitStored ==
  /\ Mounted
  /\ chainLen = Len(AllTransfers)
  /\ address_classifications = <<>>
  /\ \E kept \in SUBSET {StoredPrices[k].timestamp : k \in DOMAIN StoredPrices} :
       historical_prices = importDatabase(kept)

NextStored ==
  \/ StartImport
  \/ ImportSuccess
  \/ AssetTransfersReturn
  \/ TransactionReceiptReturn
  \/ EthPriceReturn
  \/ HistoricalPricesReturn

SpecStored == InitStored /\ [][NextStored]_vars

\* The client alone: calls of the three endpoints one after the other, any
\* network answer.  How many calls one behaviour makes.
MaxSends == 8

ClientRequests ==
  { getAssetTransfers("wA", "arb-mainnet", NONE, NONE),
    getTransactionReceipt("h1", "arb-mainnet"),
    getHistoricalPrices("ETH", NONE, "eth-mainnet", 5, 15) }

Send ==
  \E r \in ClientRequests :
    LET p == 1
    IN  /\ cpc[p] \in {"idle", "returned"}
        /\ now < MaxSends
        /\ now' = now + 1
        /\ lastCall' = IF cpc[p] = "returned"
                       THEN [endpoint |-> req[p].endpoint, retried |-> retryCount[p] > 0]
                       ELSE lastCall
        /\ makeRequest(p, r)
        /\ UNCHANGED <<storeVars, pageVars, importVars, chainLen, called, apiKey,
                       progressCallback>>

ClientAttempt ==
  \E p \in Procs :
    /\ retryWithBackoff(p, NetworkAnswers)
    /\ UNCHANGED <<storeVars, pageVars, importVars, envVars>>

NextClient == Send \/ ClientAttempt

SpecClient == Init /\ [][NextClient]_vars

\* The functions called by themselves, on arguments of the caller's choice.
\* Gas used and gas price as a receipt gives them (hex), the price of ETH as
\* the price API gives it (a decimal string).
GasUsedInputs == { <<0>>, <<1>>, <<5, 2, 0, 8>>, <<7, 5, 3, 0>>, <<11, 4, 1, 1>> }

GasPriceInputs == { <<0>>, <<5, 15, 5, 14, 1, 0, 0>>, <<3, 11, 9, 10, 12, 10, 0, 0>> }

EthPriceInputs ==
  { [digits |-> <<0>>, decimals |-> 0],
    [digits |-> <<2, 0, 0, 0>>, decimals |-> 0],
    [digits |-> <<4, 0, 0, 0>>, decimals |-> 0],
    [digits |-> <<2, 3, 8, 1>>, decimals |-> 1] }

RoundingModes == {"ROUND_DOWN", "ROUND_HALF_UP"}

CallCalculateGasCost ==
  /\ \E gasUsed \in GasUsedInputs, gasPrice \in GasPriceInputs,
        ethPrice \in EthPriceInputs, mode \in RoundingModes :
       called' = [fn |-> "calculateGasCost",
                  args |-> <<gasUsed, gasPrice, ethPrice, mode>>,
                  returned |-> calculateGasCost(gasUsed, gasPrice, ethPrice, mode)]
  /\ UNCHANGED <<clientVars, storeVars, pageVars, importVars, chainLen, now, lastCall,
                 apiKey, progressCallback>>

\* The rules of the settings page: a wallet address, a contract address or both.
RuleInputs ==
  { [wallet_address |-> "X1", contract_address |-> NONE, transaction_class |-> "Emission"],
    [wallet_address |-> NONE, contract_address |-> "cUSDC", transaction_class |-> "Purchase"],
    [wallet_address |-> "x2", contract_address |-> "cANT", transaction_class |-> "Swap"],
    [wallet_address |-> "wB", contract_address |-> NONE, transaction_class |-> "Uploads"] }

RuleLists ==
  {<<>>} \cup {<<x>> : x \in RuleInputs} \cup {<<x, y>> : x \in RuleInputs, y \in RuleInputs}

TransferInputs ==
  { [from |-> f, to |-> t, rawContract |-> [address |-> c]] :
      f \in {"x1", "x2"}, t \in {"wA", "WA", "wB"}, c \in {NONE, "cUSDC", "cANT"} }

CallClassifyTransaction ==
  /\ \E classifications \in RuleLists, transfer \in TransferInputs :
       called' = [fn |-> "classifyTransaction",
                  args |-> <<classifications, transfer, "wA">>,
                  returned |-> classifyTransaction(classifications, transfer, "wA")]
  /\ UNCHANGED <<clientVars, storeVars, pageVars, importVars, chainLen, now, lastCall,
                 apiKey, progressCallback>>

NextCalls == CallCalculateGasCost \/ CallClassifyTransaction

SpecCalls == Init /\ [][NextCalls]_vars

\* The store called by itself: one merge of prices after the other.
\* The prices a caller of addHistoricalPrices passes: contract_address is
\* optional, and a price can be that of a token named by its symbol alone.
PriceInputs ==
  { [symbol |-> a.symbol, contract_address |-> a.contract, network |-> "arb-mainnet",
     price |-> DecimalString(v), currency |-> "usd", timestamp |-> 10,
     source |-> "alchemy_historical"] :
      a \in { [symbol |-> "ETH", contract |-> NONE],
              [symbol |-> "USDC", contract |-> "cUSDC"],
              [symbol |-> "ANT", contract |-> "cANT"],
              [symbol |-> "ANT", contract |-> NONE] },
      v \in {1, 2} }

PriceBatches ==
  {<<x>> : x \in PriceInputs} \cup {<<x, y>> : x \in PriceInputs, y \in PriceInputs}

CallAddHistoricalPrices ==
  /\ \E prices \in PriceBatches :
       /\ historical_prices' = addHistoricalPrices(historical_prices, prices)
       /\ called' = [fn |-> "addHistoricalPrices", args |-> <<prices>>, returned |-> NONE]
  /\ UNCHANGED <<clientVars, raw_transactions, gas_transactions, address_classifications,
                 last_sync, token_balances, pageVars,
                 importVars, chainLen, now, lastCall, apiKey, progressCallback>>

NextMerges == CallAddHistoricalPrices

SpecMerges == Init /\ [][NextMerges]_vars

\* The settings page has stored rules before the imports.  Everything is
\* mined, every request succeeds, wallets are imported, cleared and imported
\* again.
InitRules ==
  /\ Mounted
  /\ chainLen = Len(AllTransfers)
  /\ historical_prices = <<>>
  /\ address_classifications \in RuleLists

NextRules ==
  \/ StartImport
  \/ ImportSuccess
  \/ AssetTransfersReturn
  \/ TransactionReceiptReturn
  \/ EthPriceReturn
  \/ HistoricalPricesReturn
  \/ Clear

SpecRules == InitRules /\ [][NextRules]_vars

\* The page with its two buttons, import of one wallet and of all, and the
\* API key configured or not.  Four transfers are mined; a request succeeds
\* or fails.
InitBatch ==
  /\ Opened
  /\ apiKey \in {"", "key"}
  /\ historical_prices = <<>>
  /\ address_classifications = <<>>
  /\ chainLen = ChainSize

NextBatch ==
  \/ processAllWallets
  \/ PauseReturn
  \/ StartImport
  \/ ImportAttempt
  \/ AssetTransfersReturn
  \/ TransactionReceiptReturn
  \/ EthPriceReturn
  \/ HistoricalPricesReturn
  \/ Clear

SpecBatch == InitBatch /\ [][NextBatch]_vars

\* The page is left and, later, opened again, while imports run: between
\* the two no listener is registered.  Every request succeeds.
MountPage == \E callback \in PageCallbacks : onMount(callback)

NextListener ==
  \/ StartImport
  \/ ImportSuccess
  \/ AssetTransfersReturn
  \/ TransactionReceiptReturn
  \/ EthPriceReturn
  \/ HistoricalPricesReturn
  \/ onDestroy
  \/ MountPage

SpecListener == InitRemount /\ [][NextListener]_vars

\* The table of balances called by itself.  The balances a caller passes:
\* four keys, of which three differ from the first in one field each, and
\* two amounts.
BalanceInputs ==
  { [wallet_address |-> k.wallet_address, symbol |-> k.symbol, network |-> k.network,
     balance |-> DecimalString(amount)] :
      k \in { [wallet_address |-> "wA", symbol |-> "ETH", network |-> "arb-mainnet"],
              [wallet_address |-> "wB", symbol |-> "ETH", network |-> "arb-mainnet"],
              [wallet_address |-> "wA", symbol |-> "USDC", network |-> "arb-mainnet"],
              [wallet_address |-> "wA", symbol |-> "ETH", network |-> "eth-mainnet"] },
      amount \in {1, 2} }

CallUpsertTokenBalance ==
  /\ \E balance \in BalanceInputs :
       /\ token_balances' = upsertTokenBalance(token_balances, balance)
       /\ called' = [fn |-> "upsertTokenBalance", args |-> <<balance>>, returned |-> NONE]
  /\ UNCHANGED <<clientVars, raw_transactions, gas_transactions, historical_prices,
                 address_classifications, last_sync, pageVars, importVars, chainLen, now,
                 lastCall, apiKey, progressCallback>>

CallClearWalletBalances ==
  /\ \E walletAddress \in Wallets :
       /\ token_balances' = clearWalletBalances(token_balances, walletAddress)
       /\ called' = [fn |-> "clearWalletBalances", args |-> <<walletAddress>>,
                     returned |-> NONE]
  /\ UNCHANGED <<clientVars, raw_transactions, gas_transactions, historical_prices,
                 address_classifications, last_sync, pageVars, importVars, chainLen, now,
                 lastCall, apiKey, progressCallback>>

NextBalances == CallUpsertTokenBalance \/ CallClearWalletBalances

SpecBalances == Init /\ [][NextBalances]_vars

\* Every transfer is mined, and the wallets of the list are imported one
\* after the other, each once; the page may be left and opened again while
\* an import runs, so that the imports of two wallets that share
\* transactions run side by side.  Every request succeeds.
InitShared == Constructed /\ chainLen = Len(AllTransfers)

ImportNextWallet == now < Len(WalletList) /\ importTransactions(WalletList[now + 1])

NextShared ==
  \/ ImportNextWallet
  \/ ImportSuccess
  \/ AssetTransfersReturn
  \/ TransactionReceiptReturn
  \/ EthPriceReturn
  \/ HistoricalPricesReturn
  \/ Remount

SpecShared == InitShared /\ [][NextShared]_vars

\* The balances page has stored a balance for each wallet and the settings
\* page a rule before the imports.  Everything is mined, every request
\* succeeds, wallets are imported, cleared and imported again.
InitClear ==
  /\ OpenedPage
  /\ apiKey = "key"
  /\ chainLen = Len(AllTransfers)
  /\ historical_prices = <<>>
  /\ \E rule \in RuleInputs : address_classifications = <<rule>>
  /\ \E a, b \in BalanceInputs :
       /\ a.wallet_address = "wA" /\ b.wallet_address = "wB"
       /\ a.network = "arb-mainnet"
       /\ a.balance = DecimalString(1) /\ b.balance = DecimalString(2)
       /\ token_balances = upsertTokenBalance(upsertTokenBalance(<<>>, a), b)

NextClear ==
  \/ StartImport
  \/ ImportSuccess
  \/ AssetTransfersReturn
  \/ TransactionReceiptReturn
  \/ EthPriceReturn
  \/ HistoricalPricesReturn
  \/ Clear

SpecClear == InitClear /\ [][NextClear]_vars

-----------------------------------------------------------------------------
(* The claims.                                                             *)

\* C1: whatever imports have run (the same page twice, the resume block
\* fetched again, several wallets), raw_transactions holds at most one
\* record for every transfer id (blockNum + uniqueId).
C1_OneRecordPerTransferId ==
  \A i, j \in DOMAIN raw_transactions :
    raw_transactions[i].id = raw_transactions[j].id => i = j

\* A second import of a wallet has completed: it started from the block of
\* transfers already stored, fetched them again, and stored new ones beside.
C1_ResumeBlockFetchedAgain ==
  /\ outcome.status = "ok"
  /\ atStart[1].latestBlock > 0
  /\ atStart[1].chainLen < chainLen
  /\ Len(getRawTransactionsByWallet(raw_transactions, outcome.walletAddress)) >= 3

\* C2: every step of an import of a wallet that is fully synced (imported
\* without a miss, nothing mined and nothing cleared since) leaves
\* raw_transactions, gas_transactions and historical_prices as they are, and
\* the step that completes it writes the wallet's last_sync anew.
C2_ResyncAddsNothing ==
  [][\A p \in Procs :
       (pc[p] # "idle" /\ frame[p].walletAddress \in synced) =>
          /\ raw_transactions' = raw_transactions
          /\ gas_transactions' = gas_transactions
          /\ historical_prices' = historical_prices
          /\ (pc'[p] = "idle" /\ outcome'.status = "ok") =>
                /\ last_sync'[frame[p].walletAddress] = now
                /\ last_sync'[frame[p].walletAddress] > last_sync[frame[p].walletAddress]]_vars

\* The import of a wallet that was synced when it started has completed,
\* nothing having been mined meanwhile; the wallet holds transfers, gas
\* records and prices.
C2_ResyncCompleted ==
  /\ outcome.status = "ok"
  /\ atStart[1].synced
  /\ atStart[1].chainLen = chainLen
  /\ outcome.walletAddress \in synced
  /\ Len(getRawTransactionsByWallet(raw_transactions, outcome.walletAddress)) >= 2
  /\ Len(gas_transactions) >= 2
  /\ Len(historical_prices) >= 2
  /\ last_sync[outcome.walletAddress] = now

\* C3: every request for a page of transfers carries, as fromBlock, the
\* highest block among the transfers the store held for the wallet when the
\* import started, and carries no fromBlock only when it held none.
C3_ResumesFromLatestBlock ==
  \A p \in Procs :
    pc[p] = "asset_transfers" =>
      IF atStart[p].latestBlock = 0
      THEN req[p].fromBlock = NONE
      ELSE /\ req[p].fromBlock # NONE
           /\ parseInt16(req[p].fromBlock) = atStart[p].latestBlock

\* A later page of an import that resumes from a stored block is requested.
C3_ResumedSecondPage ==
  /\ pc[1] = "asset_transfers"
  /\ req[1].pageKey # NONE
  /\ req[1].fromBlock # NONE
  /\ atStart[1].latestBlock > 0

\* C4: when an import has completed without error and without a missed
\* receipt, every hash among the wallet's stored transfers has exactly one
\* gas record.
C4_GasComplete ==
  (outcome.status = "ok" /\ outcome.missedReceipts = 0) =>
    \A k \in DOMAIN raw_transactions :
      raw_transactions[k].wallet_address = outcome.walletAddress =>
        Cardinality({g \in DOMAIN gas_transactions :
                       gas_transactions[g].hash = raw_transactions[k].hash}) = 1

\* An import without a missed receipt has completed for a wallet with
\* transfers of three transactions, one of them shared with the other
\* wallet, which has been imported too.
C4_CompletedWithSharedHash ==
  /\ outcome.status = "ok"
  /\ outcome.missedReceipts = 0
  /\ Cardinality({raw_transactions[k].hash :
                    k \in {m \in DOMAIN raw_transactions :
                             raw_transactions[m].wallet_address = outcome.walletAddress}}) >= 3
  /\ \E k \in DOMAIN raw_transactions :
       raw_transactions[k].wallet_address # outcome.walletAddress

\* C5: in every state gas_transactions holds at most one record for a
\* transaction hash, however many transfers, of one wallet or of several,
\* share the hash and however often the gas stage has run.
C5_OneGasRecordPerHash ==
  \A i, j \in DOMAIN gas_transactions :
    gas_transactions[i].hash = gas_transactions[j].hash => i = j

\* The gas stage of one import is fetching a hash for which another import
\* has stored the gas record meanwhile; both wallets hold a transfer of it.
C5_SecondStageForStoredHash ==
  \E p \in Procs :
    /\ pc[p] \in {"gas_fees", "eth_price"}
    /\ \E g \in DOMAIN gas_transactions :
         /\ gas_transactions[g].hash = frame[p].uniqueHashes[frame[p].i]
         /\ gas_transactions[g].wallet_address # frame[p].walletAddress
    /\ \A w \in Wallets : \E k \in DOMAIN raw_transactions :
         /\ raw_transactions[k].wallet_address = w
         /\ raw_transactions[k].hash = frame[p].uniqueHashes[frame[p].i]

IsThrottled(a) == a.kind = "http" /\ a.status = "429"

AllThrottled(p) ==
  /\ answers[p] # <<>>
  /\ \A k \in DOMAIN answers[p] : IsThrottled(answers[p][k])

\* C6: a call whose every attempt is answered with HTTP 429 makes 4
\* attempts, 3 of them retries, waits longer before each retry than before
\* the one before, and returns the error of the 4th attempt to its caller.
C6_ThrottledCallBacksOff ==
  \A p \in Procs :
    AllThrottled(p) =>
      /\ Len(answers[p]) <= maxRetries + 1
      /\ retryCount[p] = Min(Len(answers[p]), maxRetries)
      /\ Len(waits[p]) = retryCount[p]
      /\ \A k \in 2..Len(waits[p]) : waits[p][k] > waits[p][k - 1]
      /\ (cpc[p] = "returned") = (Len(answers[p]) = maxRetries + 1)
      /\ cpc[p] = "returned" => (~ reply[p].ok /\ isRateLimit(reply[p].error))

\* A call answered 429 four times has returned its error, the delay standing
\* at its cap before each of its retries.
C6_ThrottledAtTheCap ==
  /\ cpc[1] = "returned"
  /\ AllThrottled(1)
  /\ Len(answers[1]) = 4
  /\ ~ reply[1].ok
  /\ waits[1][1] >= Ms(10000)

\* C7: a call whose attempts all time out (the fetch is aborted after the
\* request timeout) is retried like a throttled one: it returns to its
\* caller only after 4 attempts, the delay doubled at each retry.
C7_TimedOutCallIsRetried ==
  \A p \in Procs :
    (/\ cpc[p] = "returned"
     /\ answers[p] # <<>>
     /\ \A k \in DOMAIN answers[p] : answers[p][k].kind = "abort") =>
       /\ Len(answers[p]) = maxRetries + 1
       /\ Len(waits[p]) = maxRetries

\* C8: a call answered with an error that is neither a rate limit nor a
\* timeout (another HTTP status than 429, an error object in the body) makes
\* that one attempt only: no retry, no wait, the delay left as it was.
C8_OtherErrorsAreNotRetried ==
  [][\A p \in Procs :
       (/\ cpc[p] = "attempt"
        /\ answers'[p] # answers[p]
        /\ LET a == answers'[p][Len(answers'[p])]
           IN  \/ a.kind = "http" /\ a.status # "429"
               \/ a.kind = "api") =>
          /\ cpc'[p] = "returned"
          /\ ~ reply'[p].ok
          /\ retryCount'[p] = retryCount[p]
          /\ waits'[p] = waits[p]
          /\ rateLimitDelay' = rateLimitDelay]_vars

\* C9: the delay is at least 100 ms and at most 10000 ms in every state; a
\* call that succeeds multiplies it by 0.9, down to 100 at the lowest, and a
\* failure that is retried doubles it, up to 10000 at the highest.
C9_DelayWithinBounds ==
  [][/\ Ms(100) <= rateLimitDelay /\ rateLimitDelay <= Ms(10000)
     /\ Ms(100) <= rateLimitDelay' /\ rateLimitDelay' <= Ms(10000)
     /\ \A p \in Procs :
          /\ (cpc[p] = "attempt" /\ cpc'[p] = "returned" /\ reply'[p].ok) =>
                rateLimitDelay' = Max(Ms(100), (rateLimitDelay * 9) \div 10)
          /\ retryCount'[p] > retryCount[p] =>
                rateLimitDelay' = Min(Ms(10000), rateLimitDelay * 2)
          /\ (cpc[p] = "attempt" /\ cpc'[p] = "returned" /\ ~ reply'[p].ok) =>
                rateLimitDelay' = rateLimitDelay]_vars

\* The delay stands at its cap, a retry having doubled it from above half
\* the cap, and the call in flight has since been answered.
C9_DelayAtTheCap ==
  /\ rateLimitDelay = Ms(10000)
  /\ \E k \in DOMAIN waits[1] : waits[1][k] = Ms(10000) + (k - 1) * Ms(2000)
  /\ Len(answers[1]) >= 2

\* C10: every call starts by sleeping for the delay as it stands then, one
\* value for all endpoints: after a throttled call to one endpoint the call
\* to another endpoint sleeps for the raised delay.
C10_SleepIsTheSharedDelay ==
  [][\A p \in Procs :
       (cpc'[p] = "attempt" /\ answers'[p] = <<>> /\ (cpc[p] # "attempt" \/ answers[p] # <<>>)) =>
          slept'[p] = rateLimitDelay]_vars

\* A call to one endpoint was throttled and retried; the next call, to
\* another endpoint, has slept for more than the initial 100 ms.
C10_RaisedSleepOnOtherEndpoint ==
  /\ cpc[1] = "attempt"
  /\ answers[1] = <<>>
  /\ lastCall.retried
  /\ lastCall.endpoint # req[1].endpoint
  /\ slept[1] > Ms(100)
  /\ slept[1] = rateLimitDelay

\* The place of an await in the order of the stages.
StageRank(stage) ==
  CASE stage = "asset_transfers" -> 1
    [] stage \in {"gas_fees", "eth_price"} -> 2
    [] stage = "pricing" -> 3
    [] stage = "idle" -> 4

\* C11: an import goes through the transfer stage, the gas stage, the price
\* stage and its end in this order and never back: transfers are stored only
\* from the transfer stage, gas records only from the gas stage, prices only
\* from the price stage, last_sync only by the step that ends the import.
C11_StagesInOrder ==
  [][\A p \in Procs :
       pc[p] # "idle" =>
         /\ StageRank(pc'[p]) >= StageRank(pc[p])
         /\ raw_transactions' # raw_transactions => pc[p] = "asset_transfers"
         /\ gas_transactions' # gas_transactions => pc[p] \in {"gas_fees", "eth_price"}
         /\ historical_prices' # historical_prices => pc[p] = "pricing"
         /\ last_sync' # last_sync => pc'[p] = "idle"]_vars

\* An import stands in the price stage, its transfer stage having stored
\* transfers and its gas stage having stored the gas records of their hashes.
C11_ReachedPriceStage ==
  /\ pc[1] = "pricing"
  /\ Len(frame[1].uniqueHashes) >= 2
  /\ \A k \in DOMAIN frame[1].uniqueHashes :
       \E g \in DOMAIN gas_transactions :
         gas_transactions[g].hash = frame[1].uniqueHashes[k]
  /\ Len(getRawTransactionsByWallet(raw_transactions, frame[1].walletAddress)) >= 2

\* The import p takes the reply of its call and goes on.
TakesReply(p) == cpc[p] = "returned" /\ cpc'[p] # "returned"

\* C12: last_sync of a wallet is written only by the step that ends an import
\* of that wallet whose stages have all completed; when a stage throws (a
\* request for a page of transfers fails), the import ends without writing
\* last_sync and the page is given the error.
C12_SyncOnlyAfterFullPass ==
  [][/\ \A w \in Wallets :
          last_sync'[w] # last_sync[w] =>
            \E p \in Procs :
              /\ pc[p] # "idle" /\ TakesReply(p)
              /\ frame[p].walletAddress = w
              /\ pc'[p] = "idle"
              /\ outcome'.status = "ok"
     /\ \A p \in Procs :
          (pc[p] = "asset_transfers" /\ TakesReply(p) /\ ~ reply[p].ok) =>
            /\ pc'[p] = "idle"
            /\ last_sync' = last_sync
            /\ outcome'.status = "error"
            /\ outcome'.walletAddress = frame[p].walletAddress]_vars

\* The second import of a wallet has failed: last_sync still holds the time
\* of the first.
C12_FailedAfterSynced ==
  /\ outcome.status = "error"
  /\ last_sync[outcome.walletAddress] > 0
  /\ last_sync[outcome.walletAddress] < now
  /\ getRawTransactionsByWallet(raw_transactions, outcome.walletAddress) # <<>>

IsPrefix(s, t) == Len(s) <= Len(t) /\ SubSeq(t, 1, Len(s)) = s

\* C13: the step in which an import ends with an error leaves the transfers,
\* gas records and prices stored before it as they are, and no step of an
\* import removes or changes a stored transfer or gas record.
C13_NoRollback ==
  [][\A p \in Procs :
       pc[p] # "idle" =>
         /\ IsPrefix(raw_transactions, raw_transactions')
         /\ IsPrefix(gas_transactions, gas_transactions')
         /\ (pc'[p] = "idle" /\ outcome'.status = "error") =>
               /\ raw_transactions' = raw_transactions
               /\ gas_transactions' = gas_transactions
               /\ historical_prices' = historical_prices]_vars

\* The first import of a wallet has failed at a later page: the transfers of
\* the pages before are stored.
C13_FailedAfterStoredPage ==
  /\ outcome.status = "error"
  /\ atStart[1].latestBlock = 0
  /\ Len(getRawTransactionsByWallet(raw_transactions, outcome.walletAddress)) >= PageSize

InGasStage(stage) == stage \in {"gas_fees", "eth_price"}

\* The receipts the import p has missed, after the step.
MissedReceiptsAfter(p) ==
  IF pc'[p] = "idle" THEN outcome'.missedReceipts ELSE frame'[p].missedReceipts

\* C14: in the gas stage no reply ends the import with an error: after a
\* receipt that failed or came without a result the stage goes on with the
\* next hash, and when the stage ends, the import is in the price stage or
\* has completed and every hash of the stage but the missed ones has its gas
\* record in the store.
C14_GasStageSkipsFailedHash ==
  [][\A p \in Procs :
       (InGasStage(pc[p]) /\ TakesReply(p)) =>
         /\ ~ (pc'[p] = "idle" /\ outcome'.status = "error")
         /\ pc'[p] # "asset_transfers"
         /\ pc'[p] = "gas_fees" => frame'[p].i = frame[p].i + 1
         /\ (pc[p] = "gas_fees" /\ ~ (reply[p].ok /\ reply[p].result.result # null)) =>
               MissedReceiptsAfter(p) = frame[p].missedReceipts + 1
         /\ ~ InGasStage(pc'[p]) =>
               /\ frame[p].i = Len(frame[p].uniqueHashes)
               /\ Cardinality({k \in DOMAIN frame[p].uniqueHashes :
                                 \E g \in DOMAIN gas_transactions' :
                                   gas_transactions'[g].hash = frame[p].uniqueHashes[k]})
                    = Len(frame[p].uniqueHashes) - MissedReceiptsAfter(p)]_vars

\* An import stands in the price stage: its gas stage missed the receipt of
\* its first hash and stored the gas record of a later one.
C14_LaterHashStoredAfterMiss ==
  /\ pc[1] = "pricing"
  /\ frame[1].missedReceipts >= 1
  /\ Len(frame[1].uniqueHashes) >= 2
  /\ ~ \E g \in DOMAIN gas_transactions :
         gas_transactions[g].hash = frame[1].uniqueHashes[1]
  /\ \E g \in DOMAIN gas_transactions :
       gas_transactions[g].hash = frame[1].uniqueHashes[Len(frame[1].uniqueHashes)]

\* C15: in the price stage no reply ends the import with an error: after a
\* lookup that failed the stage goes on with a later transfer, and when the
\* stage ends the import is finalized: it completes and last_sync is written.
C15_PriceStageSkipsFailedLookup ==
  [][\A p \in Procs :
       (pc[p] = "pricing" /\ TakesReply(p)) =>
         /\ pc'[p] \in {"pricing", "idle"}
         /\ pc'[p] = "pricing" => frame'[p].j > frame[p].j
         /\ pc'[p] = "idle" =>
               /\ outcome'.status = "ok"
               /\ last_sync'[frame[p].walletAddress] = now
               /\ outcome'.missedPrices =
                    frame[p].missedPrices + (IF reply[p].ok THEN 0 ELSE 1)]_vars

\* An import has completed although the lookup of the ETH price failed: the
\* price of the later USDC transfer is stored, and the lookup for the token
\* without a contract, which throws, was passed over.
C15_CompletedAfterFailedLookup ==
  /\ outcome.status = "ok"
  /\ outcome.missedPrices >= 1
  /\ last_sync[outcome.walletAddress] = now
  /\ \E k \in DOMAIN raw_transactions :
       /\ raw_transactions[k].wallet_address = outcome.walletAddress
       /\ raw_transactions[k].asset # "ETH"
       /\ raw_transactions[k].contract_address = NONE
  /\ \E k \in DOMAIN historical_prices : historical_prices[k].symbol = "USDC"
  /\ ~ \E k \in DOMAIN historical_prices : historical_prices[k].symbol = "ETH"

\* The number a decimal string writes, the point left out.
RECURSIVE Number(_)
Number(digits) ==
  IF digits = <<>> THEN 0
  ELSE 10 * Number(SubSeq(digits, 1, Len(digits) - 1)) + digits[Len(digits)]

RECURSIVE Pow10(_)
Pow10(n) == IF n = 0 THEN 1 ELSE 10 * Pow10(n - 1)

\* C20: calculateGasCost reads gas used and gas price as hex integers and
\* returns ethCost = gasUsed * gasPrice / 10^18 written with 18 decimals and
\* usdCost = ethCost * ethPrice written with 2 decimals (cut or rounded half
\* up, as the rounding mode says); 0x5208, 0x3B9ACA00 and 2000 give
\* "0.000021000000000000" and "0.04".  Gas prices are multiples of 10^8 wei
\* here, so that the numbers compared stay small.
C20_GasCostFormula ==
  called.fn = "calculateGasCost" =>
    LET gasUsed == parseInt16(called.args[1])
        tenthGwei == parseInt16(called.args[2]) \div Pow10(8)
        ethPrice == called.args[3]
        drop == Pow10(8 + ethPrice.decimals)
        half == IF called.args[4] = "ROUND_HALF_UP" THEN drop \div 2 ELSE 0
        eth == called.returned.ethCost
        usd == called.returned.usdCost
    IN  /\ parseInt16(called.args[2]) % Pow10(8) = 0
        /\ eth.decimals = 18
        /\ Len(eth.digits) = 19
        /\ SubSeq(eth.digits, 12, 19) = Zeros(8)
        /\ Number(SubSeq(eth.digits, 1, 11)) = gasUsed * tenthGwei
        /\ usd.decimals = 2
        /\ Len(usd.digits) >= 3
        /\ Number(usd.digits) = (gasUsed * tenthGwei * Number(ethPrice.digits) + half) \div drop
        /\ ( /\ called.args[1] = <<5, 2, 0, 8>>
             /\ called.args[2] = <<3, 11, 9, 10, 12, 10, 0, 0>>
             /\ ethPrice = [digits |-> <<2, 0, 0, 0>>, decimals |-> 0] )
           => /\ eth.digits = <<0>> \o <<0, 0, 0, 0, 2, 1>> \o Zeros(12)
              /\ usd.digits = <<0, 0, 4>>

\* Witness: the call of the example has returned, and so has a call whose
\* dollar cost the two rounding modes write differently.
C20_ExampleCalled ==
  /\ called.fn = "calculateGasCost"
  /\ called.args = << <<5, 2, 0, 8>>, <<3, 11, 9, 10, 12, 10, 0, 0>>,
                      [digits |-> <<2, 0, 0, 0>>, decimals |-> 0], "ROUND_DOWN" >>
  /\ called.returned.usdCost.digits = <<0, 0, 4>>
  /\ calculateGasCost(<<5, 2, 0, 8>>, <<3, 11, 9, 10, 12, 10, 0, 0>>,
                      [digits |-> <<2, 3, 8, 1>>, decimals |-> 1], "ROUND_HALF_UP")
       # calculateGasCost(<<5, 2, 0, 8>>, <<3, 11, 9, 10, 12, 10, 0, 0>>,
                          [digits |-> <<2, 3, 8, 1>>, decimals |-> 1], "ROUND_DOWN")

\* The stored prices of a symbol on a network at most five minutes from a time.
NearStored(symbol, network, timestamp) ==
  {k \in DOMAIN historical_prices :
     /\ historical_prices[k].symbol = symbol
     /\ historical_prices[k].network = network
     /\ Abs(historical_prices[k].timestamp - timestamp) <= 5}

GasRecords ==
  {gas_transactions[k] : k \in DOMAIN gas_transactions}
    \cup UNION {{frame[p].gasTransactions[k] : k \in DOMAIN frame[p].gasTransactions} :
                p \in Procs}

\* C16: a price request is in flight, in the price stage for a transfer and
\* in the gas stage for ETH on eth-mainnet, only when the store holds no price
\* of that symbol and network at most five minutes (five included) from the
\* time asked for; and a gas record made while the store held such an ETH
\* price has its dollar cost computed from the stored price.
C16_StoredPriceWithinFiveMinutesIsUsed ==
  /\ \A p \in Procs :
       /\ pc[p] = "pricing" =>
            NearStored(frame[p].queue[frame[p].j].asset, frame[p].network,
                       frame[p].queue[frame[p].j].timestamp) = {}
       /\ pc[p] = "eth_price" =>
            \A k \in DOMAIN frame[p].transactions :
              frame[p].transactions[k].hash = frame[p].uniqueHashes[frame[p].i] =>
                NearStored("ETH", "eth-mainnet", frame[p].transactions[k].timestamp) = {}
  /\ \A g \in GasRecords :
       LET near == NearStored("ETH", "eth-mainnet", g.timestamp)
       IN  near # {} =>
             \E k \in near :
               /\ \A m \in near : k <= m
               /\ g.gas_cost_usd =
                    calculateGasCost(g.gas_used, g.gas_price, historical_prices[k].price,
                                     "ROUND_DOWN").usdCost

\* Witness: an import has completed without a miss; a gas record of the
\* wallet was priced from an ETH price stored exactly five minutes from its
\* time (and not at the default price), and the wallet's USDC transfer of
\* minute 40 was served from the point of minute 35, stored for an earlier
\* transfer: no point from minute 40 on has been fetched.
C16_ServedFromStoreAtFiveMinutes ==
  /\ outcome.status = "ok"
  /\ outcome.missedReceipts = 0
  /\ outcome.missedPrices = 0
  /\ \E g \in DOMAIN gas_transactions :
       /\ gas_transactions[g].wallet_address = outcome.walletAddress
       /\ \E k \in NearStored("ETH", "eth-mainnet", gas_transactions[g].timestamp) :
            Abs(historical_prices[k].timestamp - gas_transactions[g].timestamp) = 5
       /\ gas_transactions[g].gas_cost_usd.digits # <<0, 0, 4>>
  /\ \E g \in DOMAIN gas_transactions :
       /\ gas_transactions[g].wallet_address = outcome.walletAddress
       /\ NearStored("ETH", "eth-mainnet", gas_transactions[g].timestamp) = {}
  /\ \E k \in DOMAIN raw_transactions :
       /\ raw_transactions[k].wallet_address = outcome.walletAddress
       /\ raw_transactions[k].asset = "USDC"
       /\ raw_transactions[k].timestamp = 40
  /\ \E k \in DOMAIN historical_prices :
       /\ historical_prices[k].symbol = "USDC"
       /\ historical_prices[k].timestamp = 35
  /\ ~ \E k \in DOMAIN historical_prices :
         /\ historical_prices[k].symbol = "USDC"
         /\ historical_prices[k].timestamp >= 40

RuleMatches(c, address, transfer) ==
  \/ /\ c.wallet_address # NONE
     /\ toLowerCase(c.wallet_address) = toLowerCase(address)
  \/ /\ c.contract_address # NONE
     /\ transfer.rawContract.address # NONE
     /\ toLowerCase(c.contract_address) = toLowerCase(transfer.rawContract.address)

ClassOfFirstRule(classifications, address, transfer, default) ==
  LET hits == {k \in DOMAIN classifications :
                 RuleMatches(classifications[k], address, transfer)}
  IN  IF hits = {} THEN default
      ELSE classifications[CHOOSE k \in hits : \A m \in hits : k <= m].transaction_class

\* C18 (refuted): classifyTransaction returns, for a transfer to the owner
\* (whatever the case of the letters), the class of the first rule that names
\* the from address or the transfer's contract address, OtherIncome when no
\* rule does; for any other transfer the class of the first rule that names
\* the to address or the contract address, Withdraw when no rule does.
C18_ClassOfFirstMatchingRule ==
  called.fn = "classifyTransaction" =>
    LET classifications == called.args[1]
        transfer == called.args[2]
        walletAddress == called.args[3]
    IN  called.returned =
          IF toLowerCase(transfer.to) = toLowerCase(walletAddress)
          THEN ClassOfFirstRule(classifications, transfer.from, transfer, "OtherIncome")
          ELSE ClassOfFirstRule(classifications, transfer.to, transfer, "Withdraw")

\* The transfer a stored record was made from.
TransferOf(tx) ==
  [from |-> tx.from_address, to |-> tx.to_address,
   rawContract |-> [address |-> tx.contract_address]]

C21_NoKeyNoImport ==
  [][apiKey = ""
       => /\ UNCHANGED storeVars
          /\ \A p \in Procs : /\ cpc'[p] = "idle"
                               /\ pc'[p] = "idle"
                               /\ progress'[p] = <<>>
          /\ ~ loading'
          /\ batch' = NoBatch
          /\ now' # now
               => /\ outcome'.status = "error"
                  /\ outcome'.error = <<"API", "key", "is", "not", "configured">>]_vars

\* Without a key, both buttons have been pressed and the page shows the error.
C21_RefusedWithoutKey ==
  /\ apiKey = ""
  /\ now = MaxImports
  /\ outcome.status = "error"
  /\ outcome.error = <<"API", "key", "is", "not", "configured">>
  /\ outcome.walletAddress = "wB"

\* C22: while processAllWallets runs, the end of the import of a wallet that
\* is not the last of the list, whether it returned or threw, leaves the
\* batch running: the next wallet is still attempted.
C22_BatchGoesOnAfterFailure ==
  [][\A p \in Procs :
       /\ batch.i > 0 /\ batch.call = p
       /\ batch.i < Len(WalletList)
       /\ pc[p] # "idle" /\ pc'[p] = "idle"
       => batch'.i > 0]_vars

\* The last of the events of import p.
LastEvent(events) == events[Len(events)]

\* The text names a stage of the import, by the name the events give it or
\* by the name the request client gives its requests.
NamesStage(text) ==
  \E word \in {"asset_transfers", "gas_fees", "pricing"} \cup Endpoints :
    Includes(text, word)

\* C23: when an import fails, what is reported of the failure (the text of
\* the final progress event, which carries the message of the error thrown)
\* names the wallet that was being imported and the stage that failed.
C23_FailureReportNamesWalletAndStage ==
  [][\A p \in Procs :
       /\ pc[p] # "idle" /\ pc'[p] = "idle"
       /\ LastEvent(progress'[p]).current = 0
       => /\ Includes(LastEvent(progress'[p]).currentItem, frame[p].walletAddress)
          /\ NamesStage(LastEvent(progress'[p]).currentItem)]_vars

\* The place of a stage in the order of the events.
EventRank(stage) ==
  CASE stage = "asset_transfers" -> 1
    [] stage = "gas_fees" -> 2
    [] stage = "pricing" -> 3
    [] stage = "complete" -> 4

\* C24: the progress events of one import come in the order of the stages
\* (asset_transfers, gas_fees, pricing, complete), and among the events of
\* one stage `current` never decreases.
C24_EventsInStageOrder ==
  \A p \in Procs :
    \A m, n \in DOMAIN progress[p] :
      m < n => /\ EventRank(progress[p][m].stage) <= EventRank(progress[p][n].stage)
               /\ progress[p][m].stage = progress[p][n].stage
                    => progress[p][m].current <= progress[p][n].current

\* An import has gone through all four stages, with two pages, two receipts
\* and three prices looked up.
C24_AllStagesPassed ==
  \E p \in Procs :
    /\ pc[p] = "idle"
    /\ \A stage \in {"asset_transfers", "gas_fees", "pricing", "complete"} :
         \E n \in DOMAIN progress[p] : progress[p][n].stage = stage
    /\ \E n \in DOMAIN progress[p] :
         progress[p][n].stage = "asset_transfers" /\ progress[p][n].current = 2
    /\ \E n \in DOMAIN progress[p] :
         progress[p][n].stage = "gas_fees" /\ progress[p][n].current = 2
    /\ \E n \in DOMAIN progress[p] :
         progress[p][n].stage = "pricing" /\ progress[p][n].current = 3
    /\ LastEvent(progress[p]).current = 100

\* `current` of the events of the transfer stage, in the order emitted.
TransferEvents(events) ==
  MapSeq(SelectSeq(events, LAMBDA event : event.stage = "asset_transfers"),
         LAMBDA event : event.current)

\* The transfers stored for a wallet.
Owned(stored, walletAddress) == getRawTransactionsByWallet(stored, walletAddress)

\* Import p, of a wallet that had no transfers stored, takes the answer to
\* its request for a page.
TakesPage(p) ==
  /\ pc[p] = "asset_transfers"
  /\ TakesReply(p)
  /\ reply[p].ok
  /\ reply[p].result.result.transfers # NONE
  /\ atStart[p].latestBlock = 0

\* C25, as stated: for a wallet with no transfers stored, every page adds
\* all its items to the store, and when the k-th and last page is in, the
\* events of the transfer stage are exactly k, with current = 1, ..., k.
C25_OneEventPerPage ==
  [][\A p \in Procs :
       TakesPage(p)
       => /\ Len(Owned(raw_transactions', frame[p].walletAddress))
               = Len(Owned(raw_transactions, frame[p].walletAddress))
                 + Len(reply[p].result.result.transfers)
          /\ pc'[p] # "asset_transfers"
               => TransferEvents(progress'[p]) = [n \in 1 .. frame[p].pageCount |-> n]]_vars

\* C25, amended: for a wallet with no transfers stored, every page adds all
\* its items to the store, and when the k-th and last page is in, the
\* events of the transfer stage are k + 1: the one that opens the stage, with
\* current = 0, then one per page, with current = 1, ..., k.
C25_OneEventPerPageAfterTheOpening ==
  [][\A p \in Procs :
       TakesPage(p)
       => /\ Len(Owned(raw_transactions', frame[p].walletAddress))
               = Len(Owned(raw_transactions, frame[p].walletAddress))
                 + Len(reply[p].result.result.transfers)
          /\ pc'[p] # "asset_transfers"
               => TransferEvents(progress'[p])
                    = <<0>> \o [n \in 1 .. frame[p].pageCount |-> n]]_vars

\* A wallet with no transfers stored has been imported in two pages, of two
\* transfers and of one: three are stored, and the listener has been called
\* three times in the transfer stage.
C25_TwoPagesStored ==
  \E p \in Procs :
    /\ pc[p] \in {"gas_fees", "eth_price", "pricing"}
    /\ atStart[p].latestBlock = 0
    /\ frame[p].pageCount = 2
    /\ Len(Owned(raw_transactions, frame[p].walletAddress)) = 3
    /\ TransferEvents(progress[p]) = <<0, 1, 2>>

\* C26: the listener is one slot.  Every progress event is handed to the
\* function registered last, and to no function when null was registered
\* last; the import goes on all the same.
C26_OnlyTheLastRegisteredHears ==
  [][\A p \in Procs :
       progress'[p] # progress[p] /\ progress'[p] # <<>>
       => handed'[p] = progressCallback]_vars

\* One import has run to its end with no listener registered, and the
\* events of another go to the function registered after that.
C26_CompletedUnheard ==
  /\ pc[1] = "idle"
  /\ progress[1] # <<>>
  /\ LastEvent(progress[1]).current = 100
  /\ handed[1] = NONE
  /\ last_sync["wA"] > 0
  /\ pc[2] # "idle"
  /\ handed[2] = "g"

\* C27: the page runs at most one import at a time.
C27_AtMostOneImportRuns ==
  Cardinality({p \in Procs : pc[p] # "idle"}) <= 1

\* Every record of `before` is a record of `after`.
KeptIn(before, after) ==
  \A k \in DOMAIN before : \E m \in DOMAIN after : after[m] = before[k]

\* Two imports run, of two different wallets.
TwoWalletsImported ==
  /\ \A p \in Procs : pc[p] # "idle"
  /\ frame[1].walletAddress # frame[2].walletAddress

\* C28: while the imports of two different wallets run, a step of either
\* (the code from one await to the next) loses no stored transfer, gas record
\* or price, and leaves at most one transfer per id and one gas record per
\* hash in the store.
C28_MergesKeepTheOtherImportsRecords ==
  [][\A p \in Procs :
       TwoWalletsImported /\ TakesReply(p)
       => /\ KeptIn(raw_transactions, raw_transactions')
          /\ KeptIn(gas_transactions, gas_transactions')
          /\ KeptIn(historical_prices, historical_prices')
          /\ \A i, j \in DOMAIN raw_transactions' :
               raw_transactions'[i].id = raw_transactions'[j].id => i = j
          /\ \A i, j \in DOMAIN gas_transactions' :
               gas_transactions'[i].hash = gas_transactions'[j].hash => i = j]_vars

\* Two imports of different wallets run; each has stored its transfer of the
\* transaction they share, one has stored the gas record and the other is
\* still fetching the receipt of the same transaction.
C28_BothWalletsStored ==
  /\ TwoWalletsImported
  /\ \A w \in Wallets : \E k \in DOMAIN raw_transactions :
       raw_transactions[k].wallet_address = w
  /\ Len(gas_transactions) = 1
  /\ \E p \in Procs :
       /\ pc[p] \in {"gas_fees", "eth_price"}
       /\ gas_transactions[1].hash = frame[p].uniqueHashes[frame[p].i]
       /\ gas_transactions[1].wallet_address # frame[p].walletAddress

\* C29: a call of getHistoricalPrices that has come back has returned and
\* not thrown, and when the last answer of the price source was a failure
\* what it returned is the empty series.
C29_PriceFetchReturnsEmptySeries ==
  \A p \in Procs :
    cpc[p] = "returned" /\ req[p].endpoint = "Historical prices"
    => /\ reply[p].ok
       /\ answers[p][Len(answers[p])].kind # "ok" => reply[p].result.data = <<>>

\* Two balances have one key: wallet address, symbol and network.
SameBalanceKey(a, b) ==
  /\ a.wallet_address = b.wallet_address
  /\ a.symbol = b.symbol
  /\ a.network = b.network

\* The balances of the table that have another key than b.
OtherBalances(balances, b) ==
  SelectSeq(balances, LAMBDA a : ~ SameBalanceKey(a, b))

\* C30: starting from the empty table, after every call the table holds at
\* most one balance per (wallet address, symbol, network); after an upsert it
\* holds the balance passed under its key, in the place of the one that was
\* stored under that key if there was one, and the balances of the other
\* keys are as they were.
C30_UpsertKeepsOneBalancePerKey ==
  [][/\ \A i, j \in DOMAIN token_balances' :
          SameBalanceKey(token_balances'[i], token_balances'[j]) => i = j
     /\ called'.fn = "upsertTokenBalance"
          => LET balance == called'.args[1]
             IN  /\ \E k \in DOMAIN token_balances' : token_balances'[k] = balance
                 /\ OtherBalances(token_balances', balance)
                      = OtherBalances(token_balances, balance)
                 /\ \A k \in DOMAIN token_balances :
                      SameBalanceKey(token_balances[k], balance)
                      => /\ Len(token_balances') = Len(token_balances)
                         /\ token_balances'[k] = balance]_vars

\* The balance at the head of a table of three is the one the last upsert
\* passed: it was stored in the place of the balance of its key.
C30_ReplacedInPlace ==
  /\ called.fn = "upsertTokenBalance"
  /\ Len(token_balances) = 3
  /\ token_balances[1] = called.args[1]
  /\ token_balances[1].balance = DecimalString(2)
  /\ token_balances[2].balance = DecimalString(1)

\* C31: a step of an import leaves every stored transfer and every stored
\* gas record as it is, field by field and in its place; what it stores is
\* added behind them, and an incoming record whose id is stored is dropped.
C31_ImportNeverModifiesStoredRecords ==
  [][(\E p \in Procs : pc[p] # "idle" /\ TakesReply(p))
       => /\ IsPrefix(raw_transactions, raw_transactions')
          /\ IsPrefix(gas_transactions, gas_transactions')]_vars

\* Two imports have each fetched the one transfer of their wallet and the
\* receipt of the transaction the two transfers share, and are past the gas
\* stage: the one gas record is that of the import that stored first.
C31_IncomingGasRecordDropped ==
  /\ \A p \in Procs : pc[p] = "pricing" /\ frame[p].uniqueHashes = <<"h1">>
  /\ frame[1].walletAddress # frame[2].walletAddress
  /\ Len(gas_transactions) = 1
  /\ Len(raw_transactions) = 2

\* Import p takes the answer to a request for a page of transfers.
TakesTransfers(p) == pc[p] = "asset_transfers" /\ TakesReply(p) /\ reply[p].ok

\* C32, the pages: the first request of the stage carries no cursor; when a
\* page comes with a cursor the one next request is for the same address
\* from the same block with that cursor, and when it comes without one the
\* stage is over.
C32_NextPageByCursor ==
  \A p \in Procs :
    /\ pc[p] = "idle" /\ pc'[p] = "asset_transfers" => req'[p].pageKey = NONE
    /\ TakesTransfers(p)
         => IF reply[p].result.result.pageKey # NONE
            THEN /\ pc'[p] = "asset_transfers"
                 /\ cpc'[p] = "attempt"
                 /\ reply[p].result.result.pageKey = req'[p].pageKey
                 /\ req'[p].endpoint = "Asset transfers"
                 /\ req'[p].toAddress = req[p].toAddress
                 /\ req'[p].network = req[p].network
                 /\ req'[p].fromBlock = req[p].fromBlock
            ELSE pc'[p] # "asset_transfers"

\* The pages the source holds for a wallet when everything is mined.
PagesOf(walletAddress) ==
  LET all == SelectSeq(AllTransfers, LAMBDA t : t.to = walletAddress)
  IN  (Len(all) + PageSize - 1) \div PageSize

\* C32: the pages of the transfer stage are asked for one after the other by
\* the cursor (C32_NextPageByCursor); the stage goes on while the answers
\* carry a cursor and no longer, so that it has asked for no more pages than
\* the source holds.
C32_PagesByCursorUntilNone ==
  [][/\ C32_NextPageByCursor
     /\ \A p \in Procs :
          pc'[p] = "asset_transfers"
          => frame'[p].pageCount <= Max(1, PagesOf(frame'[p].walletAddress))]_vars

\* The second page has been asked for with the cursor of the first, from the
\* block the wallet's stored transfers end at.
C32_SecondPageFromBlock ==
  \E p \in Procs :
    /\ pc[p] = "asset_transfers"
    /\ frame[p].pageCount = 2
    /\ req[p].pageKey # NONE
    /\ req[p].fromBlock # NONE

\* The ids of the transfers of a page that are not stored, in the order of
\* the page.
NewIds(stored, transfers) ==
  MapSeq(SelectSeq(transfers,
                   LAMBDA t : ~ \E k \in DOMAIN stored :
                                  stored[k].id = <<t.blockNum, t.uniqueId>>),
         LAMBDA t : <<t.blockNum, t.uniqueId>>)

\* C33: when an import takes a page, the transfers of the page that are new
\* are appended to raw_transactions in the order the page lists them, behind
\* everything stored before, the earlier pages included.
C33_PagesStoredInSourceOrder ==
  [][\A p \in Procs :
       TakesTransfers(p) /\ reply[p].result.result.transfers # NONE
       => /\ IsPrefix(raw_transactions, raw_transactions')
          /\ MapSeq(SubSeq(raw_transactions', Len(raw_transactions) + 1,
                           Len(raw_transactions')),
                    LAMBDA tx : tx.id)
               = NewIds(raw_transactions, reply[p].result.result.transfers)]_vars

\* Three transfers of one wallet have been stored from two pages, the first
\* page with two new transfers: they lie in the order of the chain.
C33_TwoPagesInOrder ==
  \E p \in Procs :
    /\ pc[p] \in {"gas_fees", "eth_price", "pricing"}
    /\ frame[p].pageCount = 2
    /\ atStart[p].latestBlock = 0
    /\ MapSeq(Owned(raw_transactions, frame[p].walletAddress), LAMBDA tx : tx.unique_id)
         = <<"u1", "u3", "u4">>

\* Import p goes on from an answer by sending the receipt request of a hash.
IssuesReceiptRequest(p) == TakesReply(p) /\ pc'[p] = "gas_fees"

HasGasRecord(gas, hash) == \E g \in DOMAIN gas : gas[g].hash = hash

HitOfTheSameAsset(prices, tx, network) ==
  LET existingPrice == findExistingPrice(prices, tx.asset, tx.contract_address, network,
                                         tx.timestamp)
  IN  existingPrice # null => existingPrice.symbol = tx.asset

\* C35: when the price stage goes on from an answer, every transfer it passes
\* without a request has been looked up in the stored prices, and a lookup
\* that found a price found one of the transfer's own asset, also when the
\* transfer names no contract.
C35_CacheHitIsOfTheSameAsset ==
  [][\A p \in Procs :
       pc[p] = "pricing" /\ TakesReply(p)
       => LET queue == frame[p].queue
              next == IF pc'[p] = "pricing" THEN frame'[p].j ELSE Len(queue) + 1
          IN  \A k \in (frame[p].j + 1) .. (next - 1) :
                HitOfTheSameAsset(historical_prices', queue[k], frame[p].network)]_vars

\* Import p completes: its last step writes last_sync of its wallet.
Completes(p) ==
  /\ pc[p] # "idle" /\ pc'[p] = "idle"
  /\ last_sync'[frame[p].walletAddress] # last_sync[frame[p].walletAddress]

\* C36: when an import completes, also one that resumed from the transfers an
\* aborted import had stored, every transfer of its wallet that was mined
\* when it started is stored, once.
C36_CompletedImportHoldsEveryTransfer ==
  [][\A p \in Procs :
       Completes(p)
       => \A k \in 1 .. atStart[p].chainLen :
            AllTransfers[k].to = frame[p].walletAddress
            => Cardinality({t \in DOMAIN raw_transactions' :
                              raw_transactions'[t].id
                                = <<AllTransfers[k].blockNum, AllTransfers[k].uniqueId>>}) = 1]_vars

\* No import of the wallet has completed, one has stored the first page and
\* was aborted; a later import has resumed from the block of that page, has
\* stored the transfer the first one had not reached, and is in its last
\* stage.
C36_ResumedAfterAbort ==
  \E p \in Procs :
    /\ pc[p] = "pricing"
    /\ last_sync[frame[p].walletAddress] = 0
    /\ atStart[p].latestBlock > 0
    /\ LET own == Owned(raw_transactions, frame[p].walletAddress)
       IN  /\ Len(own) > PageSize
           /\ own[1].created_at < own[Len(own)].created_at
           /\ parseInt16(own[Len(own)].block_num) = atStart[p].latestBlock

\* The hashes of the stored transfers of a wallet that have no gas record.
HashesWithoutGasRecord(raw, gas, walletAddress) ==
  {raw[t].hash : t \in {k \in DOMAIN raw : /\ raw[k].wallet_address = walletAddress
                                          /\ ~ HasGasRecord(gas, raw[k].hash)}}

C38_SendEndsWithinFourAttempts ==
  \A p \in Procs :
    cpc[p] # "idle" =>
      /\ Len(answers[p]) <= 1 + maxRetries
      /\ \A k \in 1 .. Len(answers[p]) - 1 : answers[p][k].kind # "ok"
      /\ cpc[p] = "attempt" =>
           /\ retryCount[p] = Len(answers[p])
           /\ Len(answers[p]) <= maxRetries
           /\ \A k \in DOMAIN answers[p] : answers[p][k].kind # "ok"
      /\ cpc[p] = "returned" =>
           /\ answers[p] # <<>>
           /\ retryCount[p] = Len(answers[p]) - 1
           /\ LET last == answers[p][Len(answers[p])]
              IN  IF last.kind = "ok"
                  THEN /\ reply[p].ok
                       /\ reply[p].result \in SourceBodies(req[p], chainLen)
                  ELSE /\ ~ reply[p].ok
                       /\ reply[p].error = OperationError(last, req[p].endpoint)

\* A call has returned the result of its 4th attempt after a throttled
\* attempt and one answered 500 with "timeout" in the body; the call before
\* it had been retried too.
C38_FourthAttemptSucceeded ==
  /\ cpc[1] = "returned"
  /\ Len(answers[1]) = 1 + maxRetries
  /\ reply[1].ok
  /\ \E k \in DOMAIN answers[1] : IsThrottled(answers[1][k])
  /\ \E k \in DOMAIN answers[1] :
       answers[1][k].kind = "http" /\ answers[1][k].status = "500"
  /\ lastCall.retried

\* The page clears wallet A.
Clears(walletAddress) ==
  /\ outcome'.status = "cleared" /\ outcome'.walletAddress = walletAddress
  /\ \A p \in Procs : pc'[p] = pc[p] /\ cpc'[p] = cpc[p]

\* C39: a clear of wallet A leaves in raw_transactions, gas_transactions and
\* token_balances the records of the other wallets, in their order, and none
\* of A; it leaves the prices, the rules and the wallets with their
\* last_sync as they were; and the import of A that follows it asks for the
\* transfers without fromBlock.
C39_ClearRemovesTheWalletsRecordsOnly ==
  [][\A A \in Wallets :
       /\ Clears(A)
          => /\ raw_transactions'
                  = SelectSeq(raw_transactions, LAMBDA r : r.wallet_address # A)
             /\ gas_transactions'
                  = SelectSeq(gas_transactions, LAMBDA r : r.wallet_address # A)
             /\ token_balances'
                  = SelectSeq(token_balances, LAMBDA r : r.wallet_address # A)
             /\ UNCHANGED <<historical_prices, address_classifications, last_sync>>
       /\ outcome.status = "cleared" /\ outcome.walletAddress = A
          => \A p \in Procs :
               pc[p] = "idle" /\ pc'[p] = "asset_transfers"
                 /\ frame'[p].walletAddress = A
               => req'[p].fromBlock = NONE]_vars

\* Wallet A has been cleared after both wallets were imported: the
\* transfers, gas records and balance of the other wallet are stored, and
\* prices and a rule, and nothing of A but its last_sync.
C39_ClearedBesideTheOtherWallet ==
  /\ outcome.status = "cleared"
  /\ LET A == outcome.walletAddress
     IN  /\ last_sync[A] > 0
         /\ \A r \in DOMAIN raw_transactions : raw_transactions[r].wallet_address # A
         /\ \A r \in DOMAIN gas_transactions : gas_transactions[r].wallet_address # A
         /\ \A r \in DOMAIN token_balances : token_balances[r].wallet_address # A
         /\ raw_transactions # <<>> /\ gas_transactions # <<>> /\ token_balances # <<>>
         /\ historical_prices # <<>> /\ address_classifications # <<>>
         /\ \E B \in Wallets : B # A /\ last_sync[B] > 0

\* C40: a clear of wallet A takes no gas record from a transfer of another
\* wallet: every hash of a transfer that stays stored and had a gas record
\* before the clear has one after it.
C40_ClearKeepsOtherWalletsGasRecords ==
  [][\A A \in Wallets :
       Clears(A)
       => \A t \in DOMAIN raw_transactions' :
            HasGasRecord(gas_transactions, raw_transactions'[t].hash)
            => HasGasRecord(gas_transactions', raw_transactions'[t].hash)]_vars

====
